---- MODULE Spec2Model ----
(***************************************************************************)
(* Model of the move-bridge relayer (packages/bridge-core).                *)
(*                                                                         *)
(* Spec        : the relay loop Relayer::start with relay_message and the  *)
(*               business-rule verification, driven by adapters whose      *)
(*               listen/submit results are chosen by the environment.      *)
(* FairSpec    : Spec with weak fairness of the loop's steps (every        *)
(*               adapter call and every sleep returns).                    *)
(* VerifySpec  : Relayer::verify_message applied to inputs drawn from a    *)
(*               bounded set of messages, configurations and clock values. *)
(* AuthSpec    : one MessageVerifier (verify/mod.rs) under any sequence of *)
(*               sign, verify, batch and policy calls.                     *)
(* ConfigSpec  : Config::load applied to drawn parsed configurations.      *)
(***************************************************************************)
EXTENDS Integers, Sequences, FiniteSets, TLC

VARIABLES
    config,        \* Relayer.config (immutable after load)
    adapters,      \* Relayer.chain_adapters: chain id -> adapter type
    iterOrder,     \* iteration order of the adapter HashMap (fixed per process)
    processed,     \* start(): processed_messages, a set of hex strings
    pc,            \* position of the start() task
    pos,           \* index into iterOrder of the chain being handled
    queue,         \* messages of the current chain's batch not yet handled
    cur,           \* the message being relayed / last handled
    retry_count,   \* relay_message: retry_count
    outcome,       \* result of the last dedup/relay decision
    clock,         \* last value read from the system clock
    attempts,      \* history: submit_message calls made by the current relay
    sleeps,        \* history: delays slept by the current relay, in order
    calls,         \* history: submit_message calls per message id (saturating)
    firstOk,       \* history: message ids whose first submit call succeeded
    delivered,     \* history: message contents submitted successfully
    submittedOk,   \* history: message ids of the successful submit calls
    verifyFailed,  \* history: messages that failed business-rule verification
    cycleLog,      \* history: chains polled in this cycle, with the listen result
    overflow_checks,       \* build profile: TRUE when integer overflow panics
    keypair,               \* MessageVerifier.keypair
    verifier_config,       \* MessageVerifier.config
    last_processed_nonce,  \* MessageVerifier.last_processed_nonce (the watermark)
    accepted,              \* history: nonces for which verify_message returned true
    lastOp,                \* history: the last call made on the verifier
    lookup,                \* the last Config::get_chain_config call and its result
    callee,                \* adapter type of the adapter whose operation runs
    adapter_op,            \* the adapter operation that runs
    encodes,               \* whether the serializer accepts the message of the call
    addr_ok,               \* whether the chain's id and bridge_address parse as Sui addresses
    retries,               \* retry_with_backoff: retries
    inner_calls,           \* history: remote calls made by the current adapter call
    remote_calls,          \* history: remote calls made since the caller started
    backoffs,              \* history: delays slept by the current adapter call
    last_err,              \* kind of the error of the last failed remote call
    lock,                  \* RwLock around Relayer.chain_adapters
    pm_pc,                 \* position of a process_message task
    pm_chain,              \* process_message: chain_id
    pm_submits,            \* history: submit_message calls made by process_message
    pm_result              \* process_message: the value returned

vars == <<config, adapters, iterOrder, processed, pc, pos, queue, cur,
          retry_count, outcome, clock, attempts, sleeps, calls, firstOk,
          delivered, submittedOk, verifyFailed, cycleLog, overflow_checks,
          keypair, verifier_config, last_processed_nonce, accepted, lastOp,
          lookup, callee, adapter_op, encodes, addr_ok, retries, inner_calls, remote_calls, backoffs,
          last_err, lock, pm_pc, pm_chain, pm_submits, pm_result>>

(***************************************************************************)
(* Bounds of the model.                                                    *)
(***************************************************************************)
MaxBatch == 2          \* longest batch a listen call returns
MaxRetriesCfg == 3     \* largest relayer.max_retries drawn
MaxRetryDelay == 1     \* largest relayer.retry_delay drawn
MaxCalls == 2          \* the per-id call counter saturates here
Now0 == 4000           \* first clock value

MAX_AGE_SECS == 3600

SUI == "sui-main"
ROOCH == "rooch-main"
ETH == "eth-main"

Min(a, b) == IF a < b THEN a ELSE b

BoundedSeq(S, n) == UNION {[1..k -> S] : k \in 0..n}

Range(s) == {s[i] : i \in 1..Len(s)}

(***************************************************************************)
(* types.rs                                                                *)
(***************************************************************************)
CrossChainMessage(nonce, source_chain, target_chain, message_type) ==
    [nonce |-> nonce, source_chain |-> source_chain, target_chain |-> target_chain,
     message_type |-> message_type, payload |-> <<nonce>>]

SignedMessage(message, signature, timestamp) ==
    [message |-> message, signature |-> signature, timestamp |-> timestamp]

NoMessage == SignedMessage(CrossChainMessage(0, "", "", ""), <<>>, 0)

(***************************************************************************)
(* hex::encode: two lower-case hex digits per byte.                        *)
(***************************************************************************)
HexDigits == <<"0", "1", "2", "3", "4", "5", "6", "7",
               "8", "9", "a", "b", "c", "d", "e", "f">>

RECURSIVE HexEncode(_)
HexEncode(bytes) ==
    IF bytes = <<>> THEN <<>>
    ELSE <<HexDigits[(Head(bytes) \div 16) + 1], HexDigits[(Head(bytes) % 16) + 1]>>
         \o HexEncode(Tail(bytes))

(***************************************************************************)
(* config/mod.rs                                                           *)
(***************************************************************************)
ChainConfig(id, adapter_type) == [id |-> id, adapter_type |-> adapter_type]

AssetConfig(name, native_chain, mappings) ==
    [name |-> name, native_chain |-> native_chain, mappings |-> mappings]

RelayerConfig(poll_interval, max_retries, retry_delay) ==
    [poll_interval |-> poll_interval, max_retries |-> max_retries,
     retry_delay |-> retry_delay]

MkConfigWith(assets, max_retries, retry_delay) ==
    [chains |-> <<ChainConfig(SUI, "sui"), ChainConfig(ROOCH, "rooch")>>,
     assets |-> assets,
     validators |-> <<>>,
     relayer |-> RelayerConfig(5, max_retries, retry_delay)]

MkConfig(max_retries, retry_delay) ==
    MkConfigWith(<<AssetConfig("SUI", SUI, (ROOCH :> "0x3::sui::SUI"))>>,
                 max_retries, retry_delay)

Configs == {MkConfig(mr, rd) : mr \in 1..MaxRetriesCfg, rd \in 1..MaxRetryDelay}

\* Config::get_chain_config: the first chain record with that id, or None.
None == [id |-> "", adapter_type |-> "none"]

\* Mutant: an unknown id falls back to the first configured chain.
GetChainConfig_OrFirst(cfg, chain_id) ==
    IF \E i \in 1..Len(cfg.chains) : cfg.chains[i].id = chain_id
    THEN cfg.chains[CHOOSE i \in 1..Len(cfg.chains) :
                       /\ cfg.chains[i].id = chain_id
                       /\ \A j \in 1..(i - 1) : cfg.chains[j].id # chain_id]
    ELSE IF cfg.chains # <<>> THEN cfg.chains[1] ELSE None

GetChainConfig(cfg, chain_id) ==
    IF \E i \in 1..Len(cfg.chains) : cfg.chains[i].id = chain_id
    THEN cfg.chains[CHOOSE i \in 1..Len(cfg.chains) :
                       /\ cfg.chains[i].id = chain_id
                       /\ \A j \in 1..(i - 1) : cfg.chains[j].id # chain_id]
    ELSE None

ChainIds(cfg) == {cfg.chains[i].id : i \in 1..Len(cfg.chains)}

ValidatorConfig(address, public_key, weight, chains) ==
    [address |-> address, public_key |-> public_key, weight |-> weight,
     chains |-> chains]

\* hex::decode(s).is_ok(), s a string given as its sequence of characters:
\* an even number of characters, each a hexadecimal digit of either case.
HexChars == Range(HexDigits) \cup {"A", "B", "C", "D", "E", "F"}

HexDecodeOk(s) == Len(s) % 2 = 0 /\ \A i \in 1..Len(s) : s[i] \in HexChars

ERR_ADAPTER_TYPE == "Invalid adapter type"
ERR_ASSET_CHAIN == "Invalid chain ID in asset config"
ERR_ASSET_MAPPING == "Invalid chain ID in asset mapping"
ERR_PUBLIC_KEY == "Invalid public key"
ERR_VALIDATOR_CHAIN == "Invalid chain ID in validator config"
ERR_POLL_INTERVAL == "Relayer poll interval must be greater than 0"
ERR_MAX_RETRIES_ZERO == "Relayer max retries must be greater than 0"

\* The first entry of a sequence of check results that is not "ok".
FirstError(results) ==
    IF \A i \in 1..Len(results) : results[i] = "ok"
    THEN "ok"
    ELSE results[CHOOSE i \in 1..Len(results) :
                    /\ results[i] # "ok"
                    /\ \A j \in 1..(i - 1) : results[j] = "ok"]

\* chain_ids.contains(id)
KnownChain(cfg, id) == \E i \in 1..Len(cfg.chains) : cfg.chains[i].id = id

AdapterTypeError(chain) ==
    IF chain.adapter_type \notin {"sui", "rooch"} THEN ERR_ADAPTER_TYPE ELSE "ok"

AssetError(cfg, asset) ==
    IF ~KnownChain(cfg, asset.native_chain)
    THEN ERR_ASSET_CHAIN
    ELSE IF \E chain_id \in DOMAIN asset.mappings : ~KnownChain(cfg, chain_id)
    THEN ERR_ASSET_MAPPING
    ELSE "ok"

ValidatorError(cfg, validator) ==
    IF ~HexDecodeOk(validator.public_key)
    THEN ERR_PUBLIC_KEY
    ELSE IF \E i \in 1..Len(validator.chains) : ~KnownChain(cfg, validator.chains[i])
    THEN ERR_VALIDATOR_CHAIN
    ELSE "ok"

RelayerConfigError_PollOnly(relayer) ==
    IF relayer.poll_interval = 0 THEN ERR_POLL_INTERVAL ELSE "ok"

RelayerConfigError(relayer) ==
    IF relayer.poll_interval = 0
    THEN ERR_POLL_INTERVAL
    ELSE IF relayer.max_retries = 0
    THEN ERR_MAX_RETRIES_ZERO
    ELSE "ok"

\* Config::validate: "ok" or the first error in the order of the checks.
Validate(cfg) ==
    FirstError(
        [i \in 1..Len(cfg.chains) |-> AdapterTypeError(cfg.chains[i])]
        \o [i \in 1..Len(cfg.assets) |-> AssetError(cfg, cfg.assets[i])]
        \o [i \in 1..Len(cfg.validators) |-> ValidatorError(cfg, cfg.validators[i])]
        \o <<RelayerConfigError(cfg.relayer)>>)

\* Config::load on a file that reads and parses: the parsed value is
\* returned if and only if it validates.
ConfigLoad(parsed) == Validate(parsed)

(***************************************************************************)
(* relayer/mod.rs: Relayer::new, the adapter map keyed by chain id.        *)
(***************************************************************************)
\* HashMap::insert per chain record in order: a later record with the same
\* id replaces the adapter of an earlier one.
NewAdapters(cfg) ==
    [id \in ChainIds(cfg) |->
        cfg.chains[CHOOSE i \in 1..Len(cfg.chains) :
                      /\ cfg.chains[i].id = id
                      /\ \A j \in (i + 1)..Len(cfg.chains) : cfg.chains[j].id # id
                  ].adapter_type]

\* The orders in which a HashMap with these keys may be iterated.
IterOrders(ids) ==
    {s \in [1..Cardinality(ids) -> ids] : \A i, j \in DOMAIN s : i # j => s[i] # s[j]}

(***************************************************************************)
(* relayer/mod.rs: Relayer::verify_message (business rules).               *)
(* Returns "ok" for Ok(true), else the text of the error.                  *)
(***************************************************************************)
ERR_FUTURE == "Message timestamp is in the future"
ERR_EXPIRED == "Message has expired (older than 1 hour)"
ERR_SOURCE == "Invalid source chain"
ERR_TARGET == "Invalid target chain"
ERR_MAPPING == "Invalid asset transfer mapping"

ValidTransfer(cfg, message) ==
    \E i \in 1..Len(cfg.assets) :
        /\ cfg.assets[i].native_chain = message.message.source_chain
        /\ message.message.target_chain \in DOMAIN cfg.assets[i].mappings

\* Mutant: the age window is closed one second early.
VerifyMessage_OffByOne(cfg, message, current_time) ==
    IF message.timestamp > current_time THEN ERR_FUTURE
    ELSE IF current_time - message.timestamp >= MAX_AGE_SECS THEN ERR_EXPIRED
    ELSE IF ~(\E i \in 1..Len(cfg.chains) :
                 cfg.chains[i].id = message.message.source_chain) THEN ERR_SOURCE
    ELSE IF ~(\E i \in 1..Len(cfg.chains) :
                 cfg.chains[i].id = message.message.target_chain) THEN ERR_TARGET
    ELSE IF message.message.message_type = "transfer" /\ ~ValidTransfer(cfg, message)
         THEN ERR_MAPPING
    ELSE "ok"

VerifyMessage(cfg, message, current_time) ==
    IF message.timestamp > current_time THEN ERR_FUTURE
    ELSE IF current_time - message.timestamp > MAX_AGE_SECS THEN ERR_EXPIRED
    ELSE IF ~(\E i \in 1..Len(cfg.chains) :
                 cfg.chains[i].id = message.message.source_chain) THEN ERR_SOURCE
    ELSE IF ~(\E i \in 1..Len(cfg.chains) :
                 cfg.chains[i].id = message.message.target_chain) THEN ERR_TARGET
    ELSE IF message.message.message_type = "transfer" /\ ~ValidTransfer(cfg, message)
         THEN ERR_MAPPING
    ELSE "ok"

(***************************************************************************)
(* relayer/mod.rs: the decisions of start() and relay_message().           *)
(***************************************************************************)
\* Mutant: the dedup set is not consulted.
ShouldRelay_Always(processed_messages, message_id) == TRUE

\* start(): if !processed_messages.contains(&message_id)
ShouldRelay(processed_messages, message_id) == message_id \notin processed_messages

\* Mutant: a successful relay replaces the set by its own id.
AfterRelay_Forget(processed_messages, message_id, result) ==
    IF result = "ok" THEN {message_id} ELSE processed_messages

\* Mutant: the id is inserted whatever relay_message returned.
AfterRelay_Always(processed_messages, message_id, result) ==
    processed_messages \cup {message_id}

\* start(): the dedup set after relay_message returned `result`.
AfterRelay(processed_messages, message_id, result) ==
    IF result = "ok" THEN processed_messages \cup {message_id} ELSE processed_messages

\* Mutant: one attempt too many.
RetriesExhausted_OffByOne(count, max_retries) == count > max_retries

\* relay_message(): if retry_count >= max_retries
RetriesExhausted(count, max_retries) == count >= max_retries

\* Mutant: the delay does not grow with the attempt.
RetryDelayOf_Flat(base_delay, count) == base_delay

\* relay_message(): let delay = base_delay * retry_count as u64
\* (the product stays far below 2^64 for the delays drawn here)
RetryDelayOf(base_delay, count) == base_delay * count

\* Mutant: the iteration steps over an adapter.
NextPos_Skip(p) == p + 2

\* start(): the chain handled after the one at index p of the iteration.
NextPos(p) == p + 1

ERR_NO_ADAPTER == "Target chain adapter not found"
ERR_NO_CONFIG == "Chain config not found"
ERR_MAX_RETRIES == "Max retries reached"

\* Mutant: a missing target adapter is not an error.
RelayPrecheck_NoLookup(cfg, adapter_map, message, current_time) ==
    IF message.message.target_chain \notin DOMAIN adapter_map THEN "ok"
    ELSE VerifyMessage(cfg, message, current_time)

\* relay_message() up to the retry loop: target adapter, target config, verification.
RelayPrecheck(cfg, adapter_map, message, current_time) ==
    IF message.message.target_chain \notin DOMAIN adapter_map THEN ERR_NO_ADAPTER
    ELSE IF GetChainConfig(cfg, message.message.target_chain) = None THEN ERR_NO_CONFIG
    ELSE VerifyMessage(cfg, message, current_time)

\* Mutant: a message is relayed only when polled from its own source chain.
RelayMessage_SourceChecked(source_chain_id, cfg, adapter_map, message, current_time) ==
    IF source_chain_id # message.message.source_chain THEN ERR_SOURCE
    ELSE RelayPrecheck(cfg, adapter_map, message, current_time)

\* relay_message(source_chain_id, message) up to the retry loop.  The polled
\* chain id is only written to the log line of a successful relay.
RelayMessage(source_chain_id, cfg, adapter_map, message, current_time) ==
    RelayPrecheck(cfg, adapter_map, message, current_time)

(***************************************************************************)
(* The environment: what the chains emit and what the clock reads.         *)
(***************************************************************************)
ClockValues == {Now0, Now0 + 1}

\* chain_adapter/sui.rs: parse_event stamps the event with the current time
\* and an empty signature.
ParseEvent(event, now) == SignedMessage(event, <<>>, now)

SuiEvents == {CrossChainMessage(1, SUI, ROOCH, "transfer"),
              CrossChainMessage(2, SUI, ROOCH, "message")}

\* chain_adapter/rooch.rs: listen_events deserializes SignedMessage values;
\* the chain signs every message content with its own signature.
RoochEvents ==
    {SignedMessage(CrossChainMessage(3, ROOCH, ETH, "message"), <<239>>, Now0),
     SignedMessage(CrossChainMessage(4, ROOCH, SUI, "message"), <<205>>, Now0 + 1)}

Signatures == {<<>>, <<205>>, <<239>>}
MessageIds == {HexEncode(s) : s \in Signatures}

\* The batches a successful listen_events may return, by adapter type.
ListenBatches(adapter_type, now) ==
    IF adapter_type = "sui"
    THEN {b \in BoundedSeq({ParseEvent(e, t) : e \in SuiEvents, t \in ClockValues}, MaxBatch) :
            /\ \A i \in DOMAIN b : b[i].timestamp >= now
            /\ \A i, j \in DOMAIN b : i < j => b[i].timestamp <= b[j].timestamp}
    ELSE BoundedSeq(RoochEvents, MaxBatch)

(***************************************************************************)
(* verify/mod.rs: MessageVerifier.                                         *)
(*                                                                         *)
(* The module is written against a message model with a chain enumeration  *)
(* (ChainType), a sender and constructors CrossChainMessage::new and       *)
(* SignedMessage::new that src/ does not contain; those two constructors   *)
(* follow the specification's data model.                                  *)
(***************************************************************************)
MaxNonce == 2          \* largest nonce drawn
MaxVerifyBatch == 2    \* longest batch given to sign_messages / verify_messages
WordBits == 16         \* width of the machine word standing for u64

MAX_MESSAGE_AGE == 3600
MIN_NONCE == 1

U64_MAX == 2^WordBits - 1

\* u64 subtraction: the difference wraps when overflow checks are off.
SubOverflows(a, b) == b > a
WrappingSub(a, b) == (a - b) % (U64_MAX + 1)

KEY_A == "key-a"
KEY_B == "key-b"

VerifierConfig(max_message_age, allowed_source_chains, allowed_target_chains) ==
    [max_message_age |-> max_message_age,
     allowed_source_chains |-> allowed_source_chains,
     allowed_target_chains |-> allowed_target_chains]

DefaultVerifierConfig ==
    VerifierConfig(MAX_MESSAGE_AGE, <<"Sui", "Rooch">>, <<"Sui", "Rooch">>)

NewCrossChainMessage(source_chain, target_chain, message_type, nonce, sender, payload) ==
    [source_chain |-> source_chain, target_chain |-> target_chain,
     message_type |-> message_type, nonce |-> nonce, sender |-> sender,
     payload |-> payload]

\* SignedMessage::new(message, signature): stamped with the current time.
NewSignedMessage(message, signature, now) == SignedMessage(message, signature, now)

\* Result<T>, and the panic of an arithmetic overflow.
Ok(v) == [tag |-> "Ok", val |-> v]
Err(e) == [tag |-> "Err", val |-> e]
Panicked(v) == [tag |-> "panic", val |-> v]
IsTrue(r) == r.tag = "Ok" /\ r.val = TRUE
IsFalse(r) == r.tag = "Ok" /\ r.val = FALSE

ERR_NONCE == "Invalid nonce"
ERR_SIGNATURE == "Invalid signature"

\* Vec::contains on an allow-list.
ChainAllowed_Any(allowed, chain) == TRUE

ChainAllowed(allowed, chain) == \E i \in 1..Len(allowed) : allowed[i] = chain

NonceInvalid_Lax(nonce, last) == nonce < last \/ nonce < MIN_NONCE

NonceInvalid(nonce, last) == nonce <= last \/ nonce < MIN_NONCE

\* MessageVerifier::validate_message_properties: "ok" or the error text.
ValidateMessageProperties(cfg, last, message) ==
    IF ~ChainAllowed(cfg.allowed_source_chains, message.source_chain)
    THEN ERR_SOURCE
    ELSE IF ~ChainAllowed(cfg.allowed_target_chains, message.target_chain)
    THEN ERR_TARGET
    ELSE IF NonceInvalid(message.nonce, last)
    THEN ERR_NONCE
    ELSE "ok"

\* Blake2b512 over serde_json::to_vec(message): every field of the message
\* enters the digest, and distinct messages are taken to have distinct
\* digests.  Serialising this plain structure cannot fail.
MessageHash(message) == message

\* ed25519: a signature is determined by the signing key and the digest.
\* wellformed is FALSE for bytes that Signature::from_bytes rejects.
Sign(key, hash) == [wellformed |-> TRUE, signer |-> key, hash |-> hash]

MalformedSignature ==
    [wellformed |-> FALSE, signer |-> "none",
     hash |-> NewCrossChainMessage("", "", "", 0, "", <<>>)]

SignatureFromBytes(signature) == signature.wellformed

SignatureMatches_KeyOnly(public, hash, signature) == signature.signer = public

\* PublicKey::verify(hash, signature).is_ok()
SignatureMatches(public, hash, signature) ==
    signature.signer = public /\ signature.hash = hash

\* MessageVerifier::sign_message
SignMessage(key, cfg, last, message, now) ==
    LET v == ValidateMessageProperties(cfg, last, message)
    IN IF v # "ok"
       THEN Err(v)
       ELSE Ok(NewSignedMessage(message, Sign(key, MessageHash(message)), now))

\* Mutant: the results are collected up to the first error.
RECURSIVE SignMessages_StopAtFailure(_, _, _, _, _)
SignMessages_StopAtFailure(key, cfg, last, messages, nows) ==
    IF messages = <<>>
    THEN <<>>
    ELSE LET head == SignMessage(key, cfg, last, Head(messages), Head(nows))
         IN IF head.tag = "Err"
            THEN <<head>>
            ELSE <<head>> \o SignMessages_StopAtFailure(key, cfg, last, Tail(messages),
                                                        Tail(nows))

\* MessageVerifier::sign_messages: messages.into_iter().map(sign_message)
\* .collect().  Each element is signed by its own call of sign_message, which
\* stamps it through SignedMessage::new at the time it is reached: nows[i] is
\* the clock when the i-th element is signed.  The watermark is only read.
RECURSIVE SignMessages(_, _, _, _, _)
SignMessages(key, cfg, last, messages, nows) ==
    IF messages = <<>>
    THEN <<>>
    ELSE <<SignMessage(key, cfg, last, Head(messages), Head(nows))>>
         \o SignMessages(key, cfg, last, Tail(messages), Tail(nows))

Expired_OffByTwo(age, max_message_age) == age > max_message_age + 1

Expired(age, max_message_age) == age > max_message_age

WatermarkAfter_Keep(last, nonce, matched) == last

WatermarkAfter_Always(last, nonce, matched) == nonce

WatermarkAfter(last, nonce, matched) == IF matched THEN nonce ELSE last

\* MessageVerifier::verify_message: the result and the watermark it leaves.
\* With overflow checks on, current_time - timestamp panics when the
\* timestamp is later than the clock; with them off it wraps.
VerifierVerifyMessage(checks, key, cfg, last, signed, now) ==
    IF checks /\ SubOverflows(now, signed.timestamp)
    THEN [result |-> Panicked(<<>>), last |-> last]
    ELSE IF Expired(WrappingSub(now, signed.timestamp), cfg.max_message_age)
    THEN [result |-> Ok(FALSE), last |-> last]
    ELSE LET v == ValidateMessageProperties(cfg, last, signed.message)
         IN IF v # "ok"
            THEN [result |-> Err(v), last |-> last]
            ELSE IF ~SignatureFromBytes(signed.signature)
            THEN [result |-> Err(ERR_SIGNATURE), last |-> last]
            ELSE LET matched == SignatureMatches(key, MessageHash(signed.message),
                                                 signed.signature)
                 IN [result |-> Ok(matched),
                     last |-> WatermarkAfter(last, signed.message.nonce, matched)]

RECURSIVE VerifierVerifyMessages_StopAtFailure(_, _, _, _, _, _)
VerifierVerifyMessages_StopAtFailure(checks, key, cfg, last, messages, nows) ==
    IF messages = <<>>
    THEN [result |-> Ok(<<>>), last |-> last]
    ELSE LET head == VerifierVerifyMessage(checks, key, cfg, last, Head(messages),
                                           Head(nows))
         IN IF head.result.tag = "panic"
            THEN [result |-> Panicked(<<>>), last |-> head.last]
            ELSE IF ~IsTrue(head.result)
            THEN [result |-> Ok(<<head.result>>), last |-> head.last]
            ELSE LET rest == VerifierVerifyMessages_StopAtFailure(
                                 checks, key, cfg, head.last, Tail(messages), Tail(nows))
                 IN [result |-> [tag |-> rest.result.tag,
                                 val |-> <<head.result>> \o rest.result.val],
                     last |-> rest.last]

\* MessageVerifier::verify_messages: map verify_message over the batch, each
\* element seeing the watermark left by the elements before it and reading
\* the clock for itself: nows[i] is the reading of the i-th element.  A
\* panic in one element ends the call; val then holds the results obtained
\* so far.
RECURSIVE VerifierVerifyMessages(_, _, _, _, _, _)
VerifierVerifyMessages(checks, key, cfg, last, messages, nows) ==
    IF messages = <<>>
    THEN [result |-> Ok(<<>>), last |-> last]
    ELSE LET head == VerifierVerifyMessage(checks, key, cfg, last, Head(messages),
                                           Head(nows))
         IN IF head.result.tag = "panic"
            THEN [result |-> Panicked(<<>>), last |-> head.last]
            ELSE LET rest == VerifierVerifyMessages(
                                 checks, key, cfg, head.last, Tail(messages), Tail(nows))
                 IN [result |-> [tag |-> rest.result.tag,
                                 val |-> <<head.result>> \o rest.result.val],
                     last |-> rest.last]

\* The verifier before its first call (MessageVerifier::new / from_keypair).
NoOp == [op |-> "new", input |-> <<>>, result |-> Ok(<<>>), before |-> 0,
         now |-> 0, nows |-> <<>>, roundtrip |-> FALSE]

authVars == <<overflow_checks, keypair, verifier_config, last_processed_nonce,
              accepted, lastOp>>

(***************************************************************************)
(* State of the calls outside the relay loop: Config::get_chain_config,    *)
(* one adapter operation with its remote calls, Relayer::process_message,  *)
(* and the RwLock around the adapter map.                                  *)
(***************************************************************************)
NoLookup == [chain_id |-> "", result |-> None, done |-> FALSE]

\* tokio::sync::RwLock: a count of read guards and whether a writer holds
\* or waits for the lock.  read() waits while a writer is queued or holds.
NoGuards == [readers |-> 0, writer |-> FALSE]

ReadBlocked_Exclusive(l) == l.writer \/ l.readers > 0

ReadBlocked(l) == l.writer

AcquireRead(l) == [l EXCEPT !.readers = @ + 1]

ReleaseRead(l) == [l EXCEPT !.readers = @ - 1]

adapterVars == <<callee, adapter_op, encodes, addr_ok, retries, inner_calls, remote_calls, backoffs, last_err>>

pmVars == <<pm_pc, pm_chain, pm_submits, pm_result>>

idleVars == <<lookup, adapterVars, pmVars>>

\* No lookup, adapter operation or process_message call is under way.
OthersIdle ==
    /\ lookup = NoLookup
    /\ callee = "none"
    /\ adapter_op = "none"
    /\ encodes = TRUE
    /\ addr_ok = TRUE
    /\ retries = 0
    /\ inner_calls = 0
    /\ remote_calls = 0
    /\ backoffs = <<>>
    /\ last_err = "none"
    /\ pm_pc = "idle"
    /\ pm_chain = ""
    /\ pm_submits = 0
    /\ pm_result = "none"

\* The relay loop and Config hold no MessageVerifier.
VerifierUnused ==
    /\ overflow_checks = FALSE
    /\ keypair = KEY_A
    /\ verifier_config = DefaultVerifierConfig
    /\ last_processed_nonce = 0
    /\ accepted = <<>>
    /\ lastOp = NoOp

(***************************************************************************)
(* State after Relayer::new(config) succeeded and start() reached its loop *)
(***************************************************************************)
Init ==
    /\ config \in Configs
    /\ adapters = NewAdapters(config)
    /\ iterOrder \in IterOrders(DOMAIN adapters)
    /\ processed = {}
    /\ pc = "poll"
    /\ pos = 1
    /\ queue = <<>>
    /\ cur = NoMessage
    /\ retry_count = 0
    /\ outcome = "none"
    /\ clock = Now0
    /\ attempts = 0
    /\ sleeps = <<>>
    /\ calls = [id \in MessageIds |-> 0]
    /\ firstOk = {}
    /\ delivered = {}
    /\ submittedOk = {}
    /\ verifyFailed = {}
    /\ cycleLog = <<>>
    /\ VerifierUnused
    /\ OthersIdle
    \* start() takes its read guard before the loop and never drops it
    /\ lock = AcquireRead(NoGuards)

relayVars == <<cur, retry_count, outcome, attempts, sleeps>>
histVars == <<calls, firstOk, delivered, submittedOk, verifyFailed>>
constVars == <<config, adapters, iterOrder>>

(***************************************************************************)
(* start(): process_chain_events for the next adapter of the iteration.    *)
(***************************************************************************)
\* listen_events returned Ok(batch).
ListenOk ==
    /\ pc = "poll"
    /\ pos <= Len(iterOrder)
    /\ LET chain_id == iterOrder[pos] IN
        /\ GetChainConfig(config, chain_id) # None
        /\ \E batch \in ListenBatches(adapters[chain_id], clock) :
            /\ queue' = batch
            /\ clock' = IF adapters[chain_id] = "sui" /\ batch # <<>>
                        THEN batch[Len(batch)].timestamp ELSE clock
        /\ cycleLog' = Append(cycleLog, [chain |-> chain_id, ok |-> TRUE])
    /\ pc' = "msgs"
    /\ UNCHANGED <<idleVars, lock, authVars, constVars, processed, pos, relayVars, histVars>>

\* Mutant: a listen failure ends the cycle.
ListenErr_Break ==
    /\ pc = "poll"
    /\ pos <= Len(iterOrder)
    /\ cycleLog' = Append(cycleLog, [chain |-> iterOrder[pos], ok |-> FALSE])
    /\ pos' = Len(iterOrder) + 1
    /\ UNCHANGED <<idleVars, lock, authVars, constVars, processed, pc, queue, clock, relayVars, histVars>>

\* listen_events (or the chain-config lookup before it) returned Err.
ListenErr ==
    /\ pc = "poll"
    /\ pos <= Len(iterOrder)
    /\ cycleLog' = Append(cycleLog, [chain |-> iterOrder[pos], ok |-> FALSE])
    /\ pos' = NextPos(pos)
    /\ UNCHANGED <<idleVars, lock, authVars, constVars, processed, pc, queue, clock, relayVars, histVars>>

(***************************************************************************)
(* start(): the loop over the messages of the batch.                       *)
(***************************************************************************)
\* The message id is already in the dedup set: nothing is done for it.
DedupSkip ==
    /\ pc = "msgs"
    /\ queue # <<>>
    /\ ~ShouldRelay(processed, HexEncode(Head(queue).signature))
    /\ cur' = Head(queue)
    /\ outcome' = "skipped"
    /\ queue' = Tail(queue)
    /\ retry_count' = 0
    /\ attempts' = 0
    /\ sleeps' = <<>>
    /\ UNCHANGED <<idleVars, lock, authVars, constVars, processed, pc, pos, clock, histVars, cycleLog>>

\* The message id is new: relay_message is called.
DedupPass ==
    /\ pc = "msgs"
    /\ queue # <<>>
    /\ ShouldRelay(processed, HexEncode(Head(queue).signature))
    /\ cur' = Head(queue)
    /\ outcome' = "relaying"
    /\ retry_count' = 0
    /\ attempts' = 0
    /\ sleeps' = <<>>
    /\ pc' = "relay"
    /\ UNCHANGED <<idleVars, lock, authVars, constVars, processed, pos, queue, clock, histVars, cycleLog>>

\* The batch is exhausted: `message` and the locals of relay_message are gone
\* and the iteration moves to the next adapter.
BatchDone ==
    /\ pc = "msgs"
    /\ queue = <<>>
    /\ pc' = "poll"
    /\ pos' = NextPos(pos)
    /\ cur' = NoMessage
    /\ retry_count' = 0
    /\ outcome' = "none"
    /\ attempts' = 0
    /\ sleeps' = <<>>
    /\ UNCHANGED <<idleVars, lock, authVars, constVars, processed, queue, clock, histVars, cycleLog>>

\* Every adapter was visited: sleep(poll_interval), then the next cycle.
CycleSleep ==
    /\ pc = "poll"
    /\ pos > Len(iterOrder)
    /\ pos' = 1
    /\ cycleLog' = <<>>
    /\ UNCHANGED <<idleVars, lock, authVars, constVars, processed, pc, queue, clock, relayVars, histVars>>

(***************************************************************************)
(* relay_message()                                                         *)
(***************************************************************************)
\* Target adapter and config lookup, then business-rule verification.
RelayBegin ==
    /\ pc = "relay"
    /\ ~ReadBlocked(lock)
    /\ lock' = AcquireRead(lock)
    /\ \E now \in ClockValues :
        /\ now >= clock
        /\ clock' = now
        /\ LET r == RelayMessage(iterOrder[pos], config, adapters, cur, now) IN
            IF r = "ok"
            THEN /\ pc' = "submit"
                 /\ outcome' = outcome
            ELSE /\ pc' = "relay_ret"
                 /\ outcome' = r
        /\ verifyFailed' = IF VerifyMessage(config, cur, now) # "ok"
                               /\ RelayPrecheck(config, adapters, cur, now)
                                      \notin {ERR_NO_ADAPTER, ERR_NO_CONFIG}
                            THEN verifyFailed \cup {cur} ELSE verifyFailed
    /\ UNCHANGED <<idleVars, authVars, constVars, processed, pos, queue, cur, retry_count, attempts,
                   sleeps, calls, firstOk, delivered, submittedOk, cycleLog>>

RecordCall(ok) ==
    LET id == HexEncode(cur.signature) IN
    /\ calls' = [calls EXCEPT ![id] = Min(calls[id] + 1, MaxCalls)]
    /\ firstOk' = IF ok /\ calls[id] = 0 THEN firstOk \cup {id} ELSE firstOk
    /\ delivered' = IF ok THEN delivered \cup {cur.message} ELSE delivered
    /\ submittedOk' = IF ok THEN submittedOk \cup {id} ELSE submittedOk
    /\ verifyFailed' = verifyFailed
    /\ attempts' = attempts + 1

\* target_adapter.submit_message returned Ok.
SubmitOk ==
    /\ pc = "submit"
    /\ RecordCall(TRUE)
    /\ outcome' = "ok"
    /\ pc' = "relay_ret"
    /\ UNCHANGED <<idleVars, lock, authVars, constVars, processed, pos, queue, cur, retry_count, sleeps,
                   clock, cycleLog>>

\* target_adapter.submit_message returned Err: give up, or sleep and retry.
SubmitErr ==
    /\ pc = "submit"
    /\ RecordCall(FALSE)
    /\ retry_count' = retry_count + 1
    /\ IF RetriesExhausted(retry_count', config.relayer.max_retries)
       THEN /\ outcome' = ERR_MAX_RETRIES
            /\ pc' = "relay_ret"
            /\ sleeps' = sleeps
       ELSE /\ sleeps' = Append(sleeps, RetryDelayOf(config.relayer.retry_delay, retry_count'))
            /\ outcome' = outcome
            /\ pc' = "submit"
    /\ UNCHANGED <<idleVars, lock, authVars, constVars, processed, pos, queue, cur, clock, cycleLog>>

\* Mutant: an error of relay_message is propagated out of start().
RelayReturn_Propagate ==
    /\ pc = "relay_ret"
    /\ processed' = AfterRelay(processed, HexEncode(cur.signature), outcome)
    /\ queue' = Tail(queue)
    /\ pc' = IF outcome = "ok" THEN "msgs" ELSE "returned"
    /\ lock' = ReleaseRead(lock)
    /\ UNCHANGED <<idleVars, authVars, constVars, pos, clock, relayVars, histVars, cycleLog>>

\* start(): relay_message returned; on Ok the id is inserted, on Err the
\* loop continues with the next message.
RelayReturn ==
    /\ pc = "relay_ret"
    /\ processed' = AfterRelay(processed, HexEncode(cur.signature), outcome)
    /\ queue' = Tail(queue)
    /\ pc' = "msgs"
    /\ lock' = ReleaseRead(lock)
    /\ UNCHANGED <<idleVars, authVars, constVars, pos, clock, relayVars, histVars, cycleLog>>

Next ==
    \/ ListenOk
    \/ ListenErr
    \/ DedupSkip
    \/ DedupPass
    \/ BatchDone
    \/ CycleSleep
    \/ RelayBegin
    \/ SubmitOk
    \/ SubmitErr
    \/ RelayReturn

Spec == Init /\ [][Next]_vars

FairSpec == Spec /\ WF_vars(Next)

(***************************************************************************)
(* VerifySpec: Relayer::verify_message called on a drawn message, under a  *)
(* drawn configuration, at a drawn clock value.                            *)
(***************************************************************************)
VerifyConfigs ==
    {MkConfigWith(a, 1, 1) :
        a \in {<<>>,
               <<AssetConfig("SUI", SUI, (ROOCH :> "0x3::sui::SUI"))>>,
               <<AssetConfig("SUI", SUI, (SUI :> "0x2::sui::SUI")),
                 AssetConfig("ROOCH", ROOCH, (SUI :> "0x2::rooch::ROOCH"))>>}}

VerifyStamps == {Now0 - MAX_AGE_SECS - 1, Now0 - MAX_AGE_SECS, Now0, Now0 + 1}

VerifyInputs ==
    {SignedMessage(CrossChainMessage(1, s, t, ty), <<1>>, ts) :
        s \in {SUI, ROOCH, ETH}, t \in {SUI, ROOCH, ETH},
        ty \in {"transfer", "message"}, ts \in VerifyStamps}

VerifyInit ==
    /\ config \in VerifyConfigs
    /\ adapters = NewAdapters(config)
    /\ iterOrder = <<>>
    /\ processed = {}
    /\ pc = "verify_call"
    /\ pos = 1
    /\ queue = <<>>
    /\ cur \in VerifyInputs
    /\ retry_count = 0
    /\ outcome = "none"
    /\ clock \in ClockValues
    /\ attempts = 0
    /\ sleeps = <<>>
    /\ calls = [id \in MessageIds |-> 0]
    /\ firstOk = {}
    /\ delivered = {}
    /\ submittedOk = {}
    /\ verifyFailed = {}
    /\ cycleLog = <<>>
    /\ VerifierUnused
    /\ OthersIdle
    /\ lock = NoGuards

VerifyCall ==
    /\ pc = "verify_call"
    /\ outcome' = VerifyMessage(config, cur, clock)
    /\ pc' = "verify_ret"
    /\ UNCHANGED <<idleVars, lock, authVars, constVars, processed, pos, queue, cur, retry_count, clock,
                   attempts, sleeps, histVars, cycleLog>>

VerifySpec == VerifyInit /\ [][VerifyCall]_vars

(***************************************************************************)
(* AuthSpec: one MessageVerifier driven by any sequence of its public      *)
(* calls, on messages, batches, policies and clock readings drawn from     *)
(* bounded sets.  A call that panics ends the process.                     *)
(***************************************************************************)
VerifierConfigs ==
    {DefaultVerifierConfig,
     VerifierConfig(0, <<"Sui">>, <<"Rooch">>),
     VerifierConfig(U64_MAX, <<"Sui", "Rooch">>, <<"Sui", "Rooch">>)}

AuthMessage(source_chain, target_chain, nonce) ==
    NewCrossChainMessage(source_chain, target_chain, "AssetTransfer", nonce,
                         KEY_A, <<1, 2, 3>>)

AuthMessages ==
    {AuthMessage(r[1], r[2], n) :
        r \in {<<"Sui", "Rooch">>, <<"Rooch", "Rooch">>, <<"Sui", "Sui">>},
        n \in 0..MaxNonce}

\* The message as it was before one byte of its payload was changed.
BeforeTamper(message) == [message EXCEPT !.payload = <<9, 2, 3>>]

SignaturesFor(message) ==
    {Sign(KEY_A, MessageHash(message)),
     Sign(KEY_B, MessageHash(message)),
     Sign(KEY_A, MessageHash(BeforeTamper(message))),
     MalformedSignature}

\* Timestamps around the clock reading and around the expiry boundary.
StampsAt(now, max_message_age) ==
    {now + 1, now, now - max_message_age + 1, now - max_message_age,
     now - max_message_age - 1} \cap (0..U64_MAX)

\* Signed messages presented to verify_message: every message properly
\* signed and stamped now; the Sui-to-Rooch messages properly signed with
\* every stamp; the Sui-to-Rooch messages of nonce 1 and above stamped now
\* with every signature.
VerifyCallInputs(now, cfg) ==
    {NewSignedMessage(m, Sign(KEY_A, MessageHash(m)), now) : m \in AuthMessages}
    \cup {NewSignedMessage(AuthMessage("Sui", "Rooch", n),
                           Sign(KEY_A, MessageHash(AuthMessage("Sui", "Rooch", n))), ts) :
             n \in 0..MaxNonce, ts \in StampsAt(now, cfg.max_message_age)}
    \cup UNION {{NewSignedMessage(AuthMessage("Sui", "Rooch", n), sg, now) :
                    sg \in SignaturesFor(AuthMessage("Sui", "Rooch", n))} :
                n \in 1..MaxNonce}

\* Batches of pairwise distinct elements; a repeated nonce is met through
\* the watermark left by earlier calls.
DistinctSeq(S, n) ==
    {s \in BoundedSeq(S, n) : \A i, j \in DOMAIN s : i # j => s[i] # s[j]}

SignBatchPool ==
    {AuthMessage("Sui", "Rooch", 1), AuthMessage("Sui", "Rooch", 2),
     AuthMessage("Rooch", "Rooch", 1)}

\* Nonces 1 and 2 properly signed now, nonce 1 signed by another keypair,
\* and nonce 1 properly signed but stamped in the future.
VerifyBatchPool(now) ==
    {NewSignedMessage(AuthMessage("Sui", "Rooch", n),
                      Sign(KEY_A, MessageHash(AuthMessage("Sui", "Rooch", n))), now) :
        n \in {1, 2}}
    \cup {NewSignedMessage(AuthMessage("Sui", "Rooch", 1),
                           Sign(KEY_B, MessageHash(AuthMessage("Sui", "Rooch", 1))), now),
          NewSignedMessage(AuthMessage("Sui", "Rooch", 1),
                           Sign(KEY_A, MessageHash(AuthMessage("Sui", "Rooch", 1))),
                           now + 1)}

RelayUnused ==
    /\ adapters = <<>>
    /\ iterOrder = <<>>
    /\ processed = {}
    /\ pos = 1
    /\ queue = <<>>
    /\ cur = NoMessage
    /\ retry_count = 0
    /\ outcome = "none"
    /\ attempts = 0
    /\ sleeps = <<>>
    /\ calls = [id \in MessageIds |-> 0]
    /\ firstOk = {}
    /\ delivered = {}
    /\ submittedOk = {}
    /\ verifyFailed = {}
    /\ cycleLog = <<>>

relayState == <<constVars, processed, pc, pos, queue, relayVars, histVars, cycleLog,
                idleVars, lock>>

AuthInit ==
    /\ config = MkConfig(1, 1)
    /\ RelayUnused
    /\ OthersIdle
    /\ lock = NoGuards
    /\ pc = "verifier"
    /\ clock = Now0
    /\ overflow_checks \in BOOLEAN
    /\ keypair = KEY_A
    /\ verifier_config \in VerifierConfigs
    /\ last_processed_nonce = 0
    /\ accepted = <<>>
    /\ lastOp = NoOp

Alive == pc = "verifier" /\ lastOp.result.tag # "panic"

Call(op, input, result, now, roundtrip) ==
    [op |-> op, input |-> input, result |-> result,
     before |-> last_processed_nonce, now |-> now, nows |-> <<>>,
     roundtrip |-> roundtrip]

\* The clock readings of n successive calls of SystemTime::now(), the first
\* made at `from`: the clock does not go back and may move on between two
\* readings.
ClockReadings(from, n) ==
    {s \in [1..n -> {t \in ClockValues : t >= from}] :
        /\ n >= 1 => s[1] = from
        /\ \A i, j \in 1..n : i < j => s[i] <= s[j]}

SignMessageCall ==
    /\ Alive
    /\ \E message \in AuthMessages :
        lastOp' = Call("sign_message", message,
                       SignMessage(keypair, verifier_config,
                                   last_processed_nonce, message, clock),
                       clock, FALSE)
    /\ UNCHANGED <<relayState, clock, overflow_checks, keypair, verifier_config,
                   last_processed_nonce, accepted>>

\* verifier.sign_messages(messages): every element is stamped at its own
\* clock reading; a second may pass between two elements.
SignMessagesCall ==
    /\ Alive
    /\ \E messages \in DistinctSeq(SignBatchPool, MaxVerifyBatch) :
        \E nows \in ClockReadings(clock, Len(messages)) :
            /\ lastOp' = [Call("sign_messages", messages,
                               Ok(SignMessages(keypair, verifier_config,
                                               last_processed_nonce, messages, nows)),
                               clock, FALSE)
                             EXCEPT !.nows = nows]
            /\ clock' = IF nows = <<>> THEN clock ELSE nows[Len(nows)]
    /\ UNCHANGED <<relayState, overflow_checks, keypair, verifier_config,
                   last_processed_nonce, accepted>>

\* into_iter().filter_map(Result::ok).collect(): the values of the Ok
\* elements, in order.
RECURSIVE OkValues(_)
OkValues(results) ==
    IF results = <<>>
    THEN <<>>
    ELSE (IF Head(results).tag = "Ok" THEN <<Head(results).val>> ELSE <<>>)
         \o OkValues(Tail(results))

\* The signed messages returned by the sign_messages call just made, as
\* test_batch_operations hands them to verify_messages.
SignedBatch ==
    IF lastOp.op = "sign_messages" /\ OkValues(lastOp.result.val) # <<>>
    THEN {OkValues(lastOp.result.val)}
    ELSE {}

\* The nonces of the elements of a batch that verified true, in order.
RECURSIVE AcceptedOf(_, _)
AcceptedOf(messages, results) ==
    IF results = <<>>
    THEN <<>>
    ELSE (IF IsTrue(Head(results)) THEN <<Head(messages).message.nonce>> ELSE <<>>)
         \o AcceptedOf(Tail(messages), Tail(results))

VerifyMessageCall ==
    /\ Alive
    /\ \E signed \in VerifyCallInputs(clock, verifier_config) :
        LET r == VerifierVerifyMessage(overflow_checks, keypair, verifier_config,
                                       last_processed_nonce, signed, clock)
        IN /\ lastOp' = Call("verify_message", signed, r.result, clock,
                             /\ lastOp.op = "sign_message"
                             /\ lastOp.result.tag = "Ok"
                             /\ lastOp.result.val = signed)
           /\ last_processed_nonce' = r.last
           /\ accepted' = accepted \o AcceptedOf(<<signed>>, <<r.result>>)
    /\ UNCHANGED <<relayState, clock, overflow_checks, keypair, verifier_config>>

\* verifier.verify_messages(messages): one clock reading per element; a
\* second may pass between two elements.  After a panic no further reading
\* is made.
VerifyMessagesCall ==
    /\ Alive
    /\ \E messages \in DistinctSeq(VerifyBatchPool(clock), MaxVerifyBatch)
                         \cup SignedBatch :
        \E nows \in ClockReadings(clock, Len(messages)) :
            LET r == VerifierVerifyMessages(overflow_checks, keypair, verifier_config,
                                            last_processed_nonce, messages, nows)
                made == IF r.result.tag = "panic"
                        THEN Len(r.result.val) + 1 ELSE Len(messages)
            IN /\ lastOp' = [Call("verify_messages", messages, r.result, clock,
                                    messages \in SignedBatch)
                                EXCEPT !.nows = SubSeq(nows, 1, made)]
               /\ clock' = IF made = 0 THEN clock ELSE nows[made]
               /\ last_processed_nonce' = r.last
               /\ accepted' = accepted \o AcceptedOf(messages, r.result.val)
    /\ UNCHANGED <<relayState, overflow_checks, keypair, verifier_config>>

ExportConfigCall ==
    /\ Alive
    /\ lastOp' = Call("export_config", <<>>, Ok(verifier_config), clock, FALSE)
    /\ UNCHANGED <<relayState, clock, overflow_checks, keypair, verifier_config,
                   last_processed_nonce, accepted>>

UpdateConfigCall ==
    /\ Alive
    /\ \E cfg \in VerifierConfigs :
        /\ verifier_config' = cfg
        /\ lastOp' = Call("update_config", cfg, Ok(<<>>), clock, FALSE)
    /\ UNCHANGED <<relayState, clock, overflow_checks, keypair,
                   last_processed_nonce, accepted>>

\* A second passes between two calls.
Tick ==
    /\ Alive
    /\ clock + 1 \in ClockValues
    /\ clock' = clock + 1
    /\ UNCHANGED <<relayState, authVars>>

AuthNext ==
    \/ Tick
    \/ SignMessageCall
    \/ SignMessagesCall
    \/ VerifyMessageCall
    \/ VerifyMessagesCall
    \/ ExportConfigCall
    \/ UpdateConfigCall

AuthSpec == AuthInit /\ [][AuthNext]_vars

(***************************************************************************)
(* ConfigSpec: Config::load applied to a parsed configuration drawn from a *)
(* bounded set of chain, asset, validator and relayer records.             *)
(***************************************************************************)
MaxChains == 2         \* longest chain list drawn

LoadChains ==
    BoundedSeq({ChainConfig(SUI, "sui"), ChainConfig(ROOCH, "rooch"),
                ChainConfig(SUI, "rooch"), ChainConfig(ETH, "evm")}, MaxChains)

LoadAssets ==
    {<<>>}
    \cup {<<AssetConfig("SUI", native, [k \in keys |-> "0x3::sui::SUI"])>> :
             native \in {SUI, ETH}, keys \in {{}, {ROOCH}, {SUI, ETH}}}

LoadKeys ==
    {<<>>, <<"a", "b">>, <<"0", "F">>, <<"a", "b", "c">>, <<"0", "x">>, <<"z", "z">>}

LoadValidators ==
    {<<>>}
    \cup {<<ValidatorConfig("0x1", key, 1, chains)>> :
             key \in LoadKeys, chains \in {<<>>, <<SUI>>, <<SUI, ETH>>}}

LoadInputs ==
    {[chains |-> c, assets |-> a, validators |-> v,
      relayer |-> RelayerConfig(p, r, 1)] :
        c \in LoadChains, a \in LoadAssets, v \in LoadValidators,
        p \in {0, 5}, r \in {0, 3}}

ConfigInit ==
    /\ config \in LoadInputs
    /\ RelayUnused
    /\ VerifierUnused
    /\ OthersIdle
    /\ lock = NoGuards
    /\ pc = "load_call"
    /\ clock = Now0

LoadCall ==
    /\ pc = "load_call"
    /\ outcome' = ConfigLoad(config)
    /\ pc' = "load_ret"
    /\ UNCHANGED <<idleVars, lock, authVars, constVars, processed, pos, queue, cur, retry_count,
                   clock, attempts, sleeps, histVars, cycleLog>>

ConfigSpec == ConfigInit /\ [][LoadCall]_vars

(***************************************************************************)
(* Start-up: Relayer::new builds one adapter per configured chain, and     *)
(* Config::get_chain_config looks a chain up.  Relayer::new accepts any    *)
(* Config value, validated or not.                                         *)
(***************************************************************************)
ERR_UNSUPPORTED == "Unsupported adapter type"
ERR_SUI_CLIENT == "Sui client build failed"

\* Mutant: an unknown adapter type gets a Rooch adapter.
CreateAdapter_Default(chain, client_err) ==
    IF chain.adapter_type = "sui"
    THEN IF client_err THEN Err(ERR_SUI_CLIENT) ELSE Ok("sui")
    ELSE Ok("rooch")

\* DefaultChainAdapterFactory::create_adapter.  SuiAdapter::new builds an RPC
\* client, which the environment may fail; RoochAdapter::new cannot fail.
CreateAdapter(chain, client_err) ==
    IF chain.adapter_type = "sui"
    THEN IF client_err THEN Err(ERR_SUI_CLIENT) ELSE Ok("sui")
    ELSE IF chain.adapter_type = "rooch" THEN Ok("rooch")
    ELSE Err(ERR_UNSUPPORTED)

\* Relayer::new: the loop over config.chains from record i on; the first
\* failed construction is returned, an insert replaces an earlier adapter
\* with the same chain id.
RECURSIVE InsertAdapters(_, _, _, _)
InsertAdapters(chains, i, map, down) ==
    IF i > Len(chains) THEN Ok(map)
    ELSE LET a == CreateAdapter(chains[i], i \in down) IN
         IF a.tag = "Err" THEN a
         ELSE InsertAdapters(chains, i + 1, (chains[i].id :> a.val) @@ map, down)

RelayerNew(cfg, down) == InsertAdapters(cfg.chains, 1, <<>>, down)

StartupConfigs ==
    {[chains |-> c, assets |-> <<>>, validators |-> <<>>,
      relayer |-> RelayerConfig(5, 3, 1)] : c \in LoadChains}

LookupIds == {SUI, ROOCH, ETH}

StartupInit ==
    /\ config \in StartupConfigs
    /\ RelayUnused
    /\ VerifierUnused
    /\ OthersIdle
    /\ lock = NoGuards
    /\ pc = "new_call"
    /\ clock = Now0

\* Relayer::new(config); down is the set of chain records whose RPC client
\* cannot be built.  An error leaves no Relayer, hence no adapter map.
RelayerNewCall ==
    /\ pc = "new_call"
    /\ \E down \in SUBSET (1..Len(config.chains)) :
        LET r == RelayerNew(config, down) IN
            /\ outcome' = IF r.tag = "Ok" THEN "ok" ELSE r.val
            /\ adapters' = IF r.tag = "Ok" THEN r.val ELSE adapters
    /\ pc' = "new_ret"
    /\ UNCHANGED <<idleVars, lock, authVars, config, iterOrder, processed, pos, queue, cur,
                   retry_count, clock, attempts, sleeps, histVars, cycleLog>>

\* config.get_chain_config(chain_id), at any time.
GetChainConfigCall ==
    /\ \E chain_id \in LookupIds :
        lookup' = [chain_id |-> chain_id,
                   result |-> GetChainConfig(config, chain_id),
                   done |-> TRUE]
    /\ UNCHANGED <<adapterVars, pmVars, lock, authVars, constVars, processed, pc, pos,
                   queue, clock, relayVars, histVars, cycleLog>>

StartupNext == RelayerNewCall \/ GetChainConfigCall

StartupSpec == StartupInit /\ [][StartupNext]_vars

(***************************************************************************)
(* One adapter operation and its caller.  listen_events is called once by  *)
(* process_chain_events, submit_message by the retry loop of               *)
(* relay_message, verify_message once by a user of the trait.  Each        *)
(* invocation of the operation body ends Ok, with a chain error, or with   *)
(* a serialization error.                                                  *)
(***************************************************************************)
MAX_RETRIES == 3
RETRY_DELAY == 2

\* SuiAdapter::verify_message turns the signature into a TransactionDigest,
\* an array of 32 bytes.
DIGEST_LENGTH == 32

AdapterOps == {"listen_events", "submit_message", "verify_message"}

\* Mutant: the Rooch operations call the node directly, as the Sui ones do.
Decorated_None(adapter_type) == FALSE

\* rooch.rs wraps the body of every operation in self.retry_with_backoff;
\* sui.rs calls the client directly.
Decorated(adapter_type) == adapter_type = "rooch"

\* Mutant: one invocation too many.
AdapterGivesUp_OffByOne(n) == n > MAX_RETRIES

\* retry_with_backoff: if retries >= MAX_RETRIES { return Err(e) }
AdapterGivesUp(n) == n >= MAX_RETRIES

\* retry_with_backoff: sleep(Duration::from_secs(RETRY_DELAY.pow(retries)))
BackoffDelay(n) == RETRY_DELAY ^ n

\* How one invocation of the operation body may end.  sui.rs first parses
\* bridge_address (submit_message and listen_events) and the chain id
\* (submit_message) as addresses and returns a chain error, with nothing
\* sent, when they do not parse ("chain_unsent"); rooch.rs parses nothing.
\* Encoding a message is a function of the message: a message the
\* serializer rejects is rejected on every invocation, before anything is
\* sent.  sui.rs decodes the events it receives; rooch.rs has no decoding
\* error.  SuiAdapter::verify_message unwraps the conversion of the
\* signature into a digest and panics, with nothing sent, when the
\* signature is not DIGEST_LENGTH bytes long.
BodyResults(adapter_type, operation, encodable, addressable, signature) ==
    IF adapter_type = "sui" /\ operation = "verify_message"
       /\ Len(signature) # DIGEST_LENGTH
    THEN {"panic"}
    ELSE IF adapter_type = "sui" /\ operation \in {"submit_message", "listen_events"}
       /\ ~addressable
    THEN {"chain_unsent"}
    ELSE IF operation = "submit_message"
    THEN IF encodable THEN {"ok", "chain"} ELSE {"serialization"}
    ELSE IF operation = "listen_events" /\ adapter_type = "sui"
    THEN {"ok", "chain", "serialization"}
    ELSE {"ok", "chain"}

\* The Error variant the caller sees: Error::Chain whether or not a request
\* was sent.
ErrorKind(result) ==
    IF result = "ok" THEN "none"
    ELSE IF result = "chain_unsent" THEN "chain"
    ELSE result

\* Whether the invocation sent a request to the node.
RequestSent(operation, result) ==
    /\ result \notin {"chain_unsent", "panic"}
    /\ ~(operation = "submit_message" /\ result = "serialization")

\* The message of the call: one as parse_event builds it, with an empty
\* signature, and one with a signature of digest length.
AdapterMessages ==
    {SignedMessage(CrossChainMessage(1, SUI, ROOCH, "transfer"), <<>>, Now0),
     SignedMessage(CrossChainMessage(4, ROOCH, SUI, "message"),
                   [i \in 1..DIGEST_LENGTH |-> 205], Now0)}

\* start() holds its read guard throughout; relay_message, the caller of
\* submit_message, holds one more until it returns.
AdapterInit ==
    /\ config \in Configs
    /\ adapters = NewAdapters(config)
    /\ iterOrder = <<>>
    /\ processed = {}
    /\ pos = 1
    /\ queue = <<>>
    /\ cur \in AdapterMessages
    /\ retry_count = 0
    /\ outcome = "none"
    /\ attempts = 0
    /\ sleeps = <<>>
    /\ calls = [id \in MessageIds |-> 0]
    /\ firstOk = {}
    /\ delivered = {}
    /\ submittedOk = {}
    /\ verifyFailed = {}
    /\ cycleLog = <<>>
    /\ VerifierUnused
    /\ clock = Now0
    /\ lookup = NoLookup
    /\ pm_pc = "idle"
    /\ pm_chain = ""
    /\ pm_submits = 0
    /\ pm_result = "none"
    /\ callee \in {"sui", "rooch"}
    /\ adapter_op \in AdapterOps
    /\ lock = IF adapter_op = "submit_message"
              THEN AcquireRead(AcquireRead(NoGuards))
              ELSE AcquireRead(NoGuards)
    /\ encodes \in BOOLEAN
    /\ addr_ok \in (IF callee = "sui" THEN BOOLEAN ELSE {TRUE})
    /\ retries = 0
    /\ inner_calls = 0
    /\ remote_calls = 0
    /\ backoffs = <<>>
    /\ last_err = "none"
    /\ pc = "call"

adapterFrame == <<lookup, pmVars, authVars, constVars, processed, pos, queue, cur,
                  clock, histVars, cycleLog, callee, adapter_op, encodes, addr_ok>>

\* The caller invokes the adapter operation.
AdapterCall ==
    /\ pc = "call"
    /\ attempts' = attempts + 1
    /\ retries' = 0
    /\ inner_calls' = 0
    /\ backoffs' = <<>>
    /\ pc' = "body"
    /\ UNCHANGED <<adapterFrame, lock, retry_count, outcome, sleeps, remote_calls, last_err>>

\* One invocation of the operation body and what the adapter does with its
\* result: return it, or (retry_with_backoff) count the failure and either
\* return the error or sleep and go round the loop.  A panic unwinds
\* through the caller.
BodyRun ==
    /\ pc = "body"
    /\ \E result \in BodyResults(callee, adapter_op, encodes, addr_ok, cur.signature) :
        /\ inner_calls' = inner_calls + 1
        /\ remote_calls' = IF RequestSent(adapter_op, result)
                           THEN remote_calls + 1 ELSE remote_calls
        /\ last_err' = ErrorKind(result)
        /\ IF result = "panic"
           THEN /\ pc' = "panicked"
                /\ UNCHANGED <<retries, backoffs>>
           ELSE IF result = "ok" \/ ~Decorated(callee)
           THEN /\ pc' = "op_ret"
                /\ UNCHANGED <<retries, backoffs>>
           ELSE /\ retries' = retries + 1
                /\ IF AdapterGivesUp(retries')
                   THEN /\ pc' = "op_ret"
                        /\ backoffs' = backoffs
                   ELSE /\ pc' = "body"
                        /\ backoffs' = Append(backoffs, BackoffDelay(retries'))
    /\ UNCHANGED <<adapterFrame, lock, retry_count, outcome, sleeps, attempts>>

\* The adapter operation returned to its caller.  relay_message counts a
\* failed submit_message and gives up or sleeps and calls again, and drops
\* its read guard when it returns; the other callers take the result as it
\* is.
AdapterReturn ==
    /\ pc = "op_ret"
    /\ IF adapter_op = "submit_message" /\ last_err # "none"
       THEN /\ retry_count' = retry_count + 1
            /\ IF RetriesExhausted(retry_count', config.relayer.max_retries)
               THEN /\ outcome' = ERR_MAX_RETRIES
                    /\ pc' = "done"
                    /\ sleeps' = sleeps
               ELSE /\ sleeps' = Append(sleeps,
                                        RetryDelayOf(config.relayer.retry_delay, retry_count'))
                    /\ outcome' = outcome
                    /\ pc' = "call"
       ELSE /\ outcome' = IF last_err = "none" THEN "ok" ELSE last_err
            /\ pc' = "done"
            /\ UNCHANGED <<retry_count, sleeps>>
    /\ lock' = IF adapter_op = "submit_message" /\ pc' = "done"
               THEN ReleaseRead(lock) ELSE lock
    /\ UNCHANGED <<adapterFrame, attempts, retries, inner_calls, remote_calls, backoffs,
                   last_err>>

AdapterNext == AdapterCall \/ BodyRun \/ AdapterReturn

AdapterSpec == AdapterInit /\ [][AdapterNext]_vars

(***************************************************************************)
(* relay_message(source_chain_id, message) as start() calls it for a       *)
(* message that passed the dedup test, returned by the chain polled at     *)
(* index pos, whatever source chain the message names: the lookups and     *)
(* the verification, the submit loop, and the return to start().           *)
(***************************************************************************)
RelayCallConfigs ==
    {MkConfigWith(a, mr, 1) :
        a \in {<<>>,
               <<AssetConfig("SUI", SUI, (ROOCH :> "0x3::sui::SUI"))>>,
               <<AssetConfig("SUI", SUI, (SUI :> "0x2::sui::SUI")),
                 AssetConfig("ROOCH", ROOCH, (SUI :> "0x2::rooch::ROOCH"))>>},
        mr \in 1..MaxRetriesCfg}

\* The messages of VerifyInputs as a chain's listen_events returns them.
RelayCallInputs ==
    {SignedMessage(m.message, <<205>>, m.timestamp) : m \in VerifyInputs}

\* start() holds its read guard and has found the id of `cur`, the only
\* message of the batch, absent from the dedup set.
RelayCallInit ==
    /\ config \in RelayCallConfigs
    /\ adapters = NewAdapters(config)
    /\ iterOrder \in IterOrders(DOMAIN adapters)
    /\ processed = {}
    /\ pc = "relay"
    /\ pos \in 1..Len(iterOrder)
    /\ cur \in RelayCallInputs
    /\ queue = <<cur>>
    /\ retry_count = 0
    /\ outcome = "relaying"
    /\ clock \in ClockValues
    /\ attempts = 0
    /\ sleeps = <<>>
    /\ calls = [id \in MessageIds |-> 0]
    /\ firstOk = {}
    /\ delivered = {}
    /\ submittedOk = {}
    /\ verifyFailed = {}
    /\ cycleLog = <<>>
    /\ VerifierUnused
    /\ OthersIdle
    /\ lock = AcquireRead(NoGuards)

RelayCallNext ==
    \/ RelayBegin
    \/ SubmitOk
    \/ SubmitErr
    \/ RelayReturn

RelayCallSpec == RelayCallInit /\ [][RelayCallNext]_vars

(***************************************************************************)
(* process_message called from another task while start() runs.  The loop  *)
(* holds the read guard it took before its first cycle; relay_message and  *)
(* process_message take a further read guard each.  Nothing takes the      *)
(* write lock: the map is filled in Relayer::new before it is shared.      *)
(***************************************************************************)
ERR_PM_NO_ADAPTER == "Chain adapter not found"

\* Messages injected through process_message: both fail the business rules
\* at every clock reading (one expired, one from the future), and the first
\* carries the signature of a message the Rooch chain emits.
PmMessages ==
    {SignedMessage(CrossChainMessage(4, ROOCH, SUI, "message"), <<205>>, 0),
     SignedMessage(CrossChainMessage(5, SUI, ROOCH, "transfer"), <<>>, Now0 + MAX_AGE_SECS)}

PmChains == {SUI, ROOCH, ETH}

\* Mutant: the injected message goes through the business rules first.
ProcessMessageEntry_Verified(cfg, chain_id, message, current_time) ==
    IF GetChainConfig(cfg, chain_id) = None THEN ERR_NO_CONFIG
    ELSE VerifyMessage(cfg, message, current_time)

\* process_message() up to the read of the adapter map: only the chain
\* config is looked up.
ProcessMessageEntry(cfg, chain_id, message, current_time) ==
    IF GetChainConfig(cfg, chain_id) = None THEN ERR_NO_CONFIG ELSE "ok"

\* One configuration and one iteration order of the map: neither bears on
\* the locking.
ConcInit ==
    /\ Init
    /\ config = MkConfig(2, 1)
    /\ iterOrder = <<SUI, ROOCH>>

pmFrame == <<lookup, adapterVars, authVars, constVars, processed, pc, pos, queue, clock,
             relayVars, histVars, cycleLog>>

\* process_message(chain_id, message) is called (once in a run).
PmCall ==
    /\ pm_pc = "idle"
    /\ \E chain_id \in PmChains, message \in PmMessages :
        LET r == ProcessMessageEntry(config, chain_id, message, clock) IN
            /\ pm_chain' = chain_id
            /\ IF r = "ok"
               THEN /\ pm_pc' = "read"
                    /\ pm_result' = pm_result
               ELSE /\ pm_pc' = "done"
                    /\ pm_result' = r
    /\ UNCHANGED <<pmFrame, lock, pm_submits>>

\* self.chain_adapters.read().await, then adapters.get(chain_id); without
\* an adapter the guard is dropped with the error.
PmRead ==
    /\ pm_pc = "read"
    /\ ~ReadBlocked(lock)
    /\ IF pm_chain \in DOMAIN adapters
       THEN /\ lock' = AcquireRead(lock)
            /\ pm_pc' = "submit"
            /\ pm_result' = pm_result
       ELSE /\ lock' = lock
            /\ pm_pc' = "done"
            /\ pm_result' = ERR_PM_NO_ADAPTER
    /\ UNCHANGED <<pmFrame, pm_chain, pm_submits>>

\* adapter.submit_message(chain_config, message) returns; its result is the
\* result of process_message and the guard is dropped.
PmSubmit ==
    /\ pm_pc = "submit"
    /\ \E r \in {"ok", "chain"} :
        pm_result' = r
    /\ pm_submits' = pm_submits + 1
    /\ pm_pc' = "done"
    /\ lock' = ReleaseRead(lock)
    /\ UNCHANGED <<pmFrame, pm_chain>>

ConcNext == Next \/ PmCall \/ PmRead \/ PmSubmit

\* The loop takes its next step whenever it can (every adapter call
\* returns), and an acquisition that is not blocked completes.
ConcSpec == ConcInit /\ [][ConcNext]_vars /\ WF_vars(Next) /\ WF_vars(PmRead)

(***************************************************************************)
(* Properties                                                              *)
(***************************************************************************)
CurId == HexEncode(cur.signature)
MaxRetries == config.relayer.max_retries
VerifyErrors == {ERR_FUTURE, ERR_EXPIRED, ERR_SOURCE, ERR_TARGET, ERR_MAPPING}
ConfiguredChains == {SUI, ROOCH}
CycleOver == pc = "poll" /\ pos > Len(iterOrder)
PolledThisCycle(c) == \E i \in DOMAIN cycleLog : cycleLog[i].chain = c
ListenFailed(c) == \E i \in DOMAIN cycleLog : cycleLog[i].chain = c /\ ~cycleLog[i].ok
JustPolled(c) == cycleLog # <<>> /\ cycleLog[Len(cycleLog)].chain = c
Handling == pc \in {"relay", "submit", "relay_ret"} \/ (pc = "msgs" /\ queue # <<>>)

\* C1: a message id whose first submit_message call succeeded has had
\* exactly one submit_message call in the whole run, however often messages
\* with that signature are returned by listen_events.
C1_RelayDedup == \A id \in MessageIds : id \in firstOk => calls[id] = 1

\* C1 witness: a message is presented again after its signature was relayed
\* with a successful first submit, and is skipped.
C1_Witness == outcome = "skipped" /\ CurId \in firstOk /\ calls[CurId] = 1

\* C2: a message that passes the checks of relay_message is never skipped
\* unless a message with its content has been submitted successfully.
C2_AtLeastOnce ==
    (outcome = "skipped" /\ RelayPrecheck(config, adapters, cur, clock) = "ok")
        => cur.message \in delivered

\* C3: a relay that succeeds after max_retries - 1 failed submits has called
\* submit_message max_retries times, has slept retry_delay * k after the k-th
\* failure, and its message id is in the dedup set once it has returned.
C3_RetryTiming ==
    (outcome = "ok" /\ retry_count = MaxRetries - 1) =>
        /\ attempts = MaxRetries
        /\ sleeps = [k \in 1..(MaxRetries - 1) |-> config.relayer.retry_delay * k]
        /\ (pc # "relay_ret" => CurId \in processed)

\* C3 witness: such a relay has returned, with two sleeps behind it.
C3_Witness ==
    /\ outcome = "ok"
    /\ pc = "msgs"
    /\ MaxRetries = 3
    /\ retry_count = 2
    /\ Len(sleeps) = 2
    /\ CurId \in processed

\* C4: a relay whose submits all fail has called submit_message exactly
\* max_retries times and slept max_retries - 1 times, returns an error, does
\* not add the message id to the dedup set, and the loop goes on with the
\* rest of the batch.
C4_RetryExhaustion ==
    /\ [](outcome = ERR_MAX_RETRIES =>
            /\ attempts = MaxRetries
            /\ retry_count = MaxRetries
            /\ Len(sleeps) = MaxRetries - 1
            /\ CurId \notin processed)
    /\ [][(pc = "relay_ret" /\ outcome = ERR_MAX_RETRIES) =>
            /\ pc' = "msgs"
            /\ queue' = Tail(queue)
            /\ processed' = processed]_vars

\* C4 witness: the retries of a relay were exhausted and another message of
\* the batch is next.
C4_Witness ==
    /\ outcome = ERR_MAX_RETRIES
    /\ pc = "msgs"
    /\ queue # <<>>
    /\ MaxRetries = 3
    /\ attempts = 3

\* C5: a message that fails verification causes no submit call and no retry,
\* its id is not added to the dedup set by that relay (only a successful
\* submit puts an id there), the loop goes on with the next message, and any
\* message whose id is not in the set is passed to relay_message again.
C5_VerifyFailure ==
    /\ [](outcome \in VerifyErrors =>
            /\ attempts = 0
            /\ retry_count = 0
            /\ sleeps = <<>>
            /\ CurId \notin processed)
    /\ [](\A m \in verifyFailed :
            HexEncode(m.signature) \in processed => HexEncode(m.signature) \in submittedOk)
    /\ [][(pc = "relay_ret" /\ outcome \in VerifyErrors) =>
            /\ pc' = "msgs"
            /\ queue' = Tail(queue)
            /\ processed' = processed]_vars
    /\ [][(pc = "msgs" /\ queue # <<>>
            /\ HexEncode(Head(queue).signature) \notin processed) =>
            /\ pc' = "relay"
            /\ cur' = Head(queue)]_vars

\* C5 witness: a message that failed verification in an earlier cycle was
\* returned again, verified again and relayed.
C5_Witness == cur \in verifyFailed /\ outcome = "ok" /\ pc = "msgs"

\* C6: a message whose target chain has no adapter or no chain config makes
\* relay_message fail before any submit call, retry or sleep, and its id is
\* not added to the dedup set.
C6_MissingTarget ==
    /\ []((pc \in {"submit", "relay_ret"}
            /\ (\/ cur.message.target_chain \notin DOMAIN adapters
                \/ GetChainConfig(config, cur.message.target_chain) = None)) =>
            /\ pc = "relay_ret"
            /\ outcome \in {ERR_NO_ADAPTER, ERR_NO_CONFIG}
            /\ attempts = 0
            /\ sleeps = <<>>)
    /\ [](outcome \in {ERR_NO_ADAPTER, ERR_NO_CONFIG} =>
            /\ attempts = 0
            /\ sleeps = <<>>
            /\ CurId \notin processed)
    /\ [][(pc = "relay_ret" /\ outcome \in {ERR_NO_ADAPTER, ERR_NO_CONFIG}) =>
            processed' = processed]_vars

\* C6 witness: relay_message has failed for a message whose target chain is
\* not configured.
C6_Witness ==
    /\ pc = "msgs"
    /\ outcome = ERR_NO_ADAPTER
    /\ cur.message.target_chain = ETH

\* C7: no message is handled for a chain whose listen failed in this cycle,
\* a cycle ends only when every configured chain was polled, whichever
\* listens failed, and a chain whose listen failed is polled again after the
\* cycle has ended.
C7_ListenIsolation ==
    /\ [](Handling =>
            /\ cycleLog # <<>>
            /\ cycleLog[Len(cycleLog)] = [chain |-> iterOrder[pos], ok |-> TRUE])
    /\ [](CycleOver => \A c \in ConfiguredChains : PolledThisCycle(c))
    /\ [][(pc = "poll" /\ pos <= Len(iterOrder)
            /\ cycleLog' = Append(cycleLog, [chain |-> iterOrder[pos], ok |-> FALSE]))
            => (pc' = "poll" /\ pos' = pos + 1 /\ queue' = <<>>)]_vars
    /\ \A c \in ConfiguredChains : ListenFailed(c) ~> (cycleLog = <<>>)
    /\ \A c \in ConfiguredChains : (cycleLog = <<>>) ~> PolledThisCycle(c)

\* C7 witness: the first chain's listen failed and the second chain was
\* polled in the same cycle and returned a message that is being relayed.
C7_Witness ==
    /\ Len(cycleLog) = 2
    /\ ~cycleLog[1].ok
    /\ cycleLog[2].ok
    /\ pc = "submit"

\* C8: the loop always has a next step (start() never returns), no chain is
\* polled twice in a cycle, and every configured chain is polled again and
\* again.
C8_NoTerminalState ==
    /\ [](ENABLED Next)
    /\ [](pc \in {"poll", "msgs", "relay", "submit", "relay_ret"})
    /\ [](\A i, j \in DOMAIN cycleLog : i # j => cycleLog[i].chain # cycleLog[j].chain)
    /\ \A c \in ConfiguredChains : []<>JustPolled(c)
    /\ []<>CycleOver

\* C8 witness: a cycle is over in which a listen failed, a verification
\* failed and a relay ran out of retries.
C8_Witness ==
    /\ CycleOver
    /\ \E c \in ConfiguredChains : ListenFailed(c)
    /\ verifyFailed # {}
    /\ \E id \in MessageIds : calls[id] > 0 /\ id \notin submittedOk

\* C9 as stated: chains are polled in the order of Config.chains.
C9_ConfigOrder ==
    \A i \in DOMAIN cycleLog : cycleLog[i].chain = config.chains[i].id

\* C9 amended: chains are handled one at a time, in the iteration order of
\* the adapter map, which is a fixed order over the configured chain ids and
\* the same in every cycle.
C9_Sequential ==
    /\ [](/\ \A i \in DOMAIN cycleLog : cycleLog[i].chain = iterOrder[i]
          /\ Len(cycleLog) = IF pc = "poll" THEN pos - 1 ELSE pos
          /\ pc = "poll" => queue = <<>>
          /\ iterOrder \in IterOrders(ChainIds(config)))
    /\ [][iterOrder' = iterOrder]_vars
    /\ [][cycleLog' # cycleLog => (pc = "poll" /\ queue = <<>>)]_vars

\* C9 witness: a cycle has visited every chain, in an order that is not the
\* order of Config.chains.
C9_Witness ==
    /\ CycleOver
    /\ Len(cycleLog) = Len(config.chains)
    /\ cycleLog[1].chain # config.chains[1].id

\* C10: verify_message returns Ok exactly when the timestamp is not in the
\* future and at most 3600 s old, source and target chain are configured,
\* and a "transfer" has an asset native to the source with a mapping for the
\* target; otherwise the first failing check, in this order, is the error.
C10_BusinessRules ==
    pc = "verify_ret" =>
        LET m == cur.message
            fresh == cur.timestamp <= clock /\ clock - cur.timestamp <= 3600
            srcOk == m.source_chain \in ChainIds(config)
            tgtOk == m.target_chain \in ChainIds(config)
            mapOk == m.message_type = "transfer" =>
                        \E a \in Range(config.assets) :
                            /\ a.native_chain = m.source_chain
                            /\ m.target_chain \in DOMAIN a.mappings
        IN  /\ (outcome = "ok") <=> (fresh /\ srcOk /\ tgtOk /\ mapOk)
            /\ cur.timestamp > clock => outcome = ERR_FUTURE
            /\ (cur.timestamp <= clock /\ ~fresh) => outcome = ERR_EXPIRED
            /\ (fresh /\ ~srcOk) => outcome = ERR_SOURCE
            /\ (fresh /\ srcOk /\ ~tgtOk) => outcome = ERR_TARGET
            /\ (fresh /\ srcOk /\ tgtOk /\ ~mapOk) => outcome = ERR_MAPPING

\* C10 witness: a transfer that is exactly 3600 s old and covered by an asset
\* mapping was accepted.
C10_Witness ==
    /\ pc = "verify_ret"
    /\ outcome = "ok"
    /\ cur.message.message_type = "transfer"
    /\ clock - cur.timestamp = 3600

(***************************************************************************)
(* MessageVerifier properties (AuthSpec).  They read the last call made:   *)
(* its input, its result, the watermark it found and its clock reading.    *)
(***************************************************************************)
OpAge == lastOp.now - lastOp.input.timestamp
ChainsAllowedBy(cfg, message) ==
    /\ message.source_chain \in Range(cfg.allowed_source_chains)
    /\ message.target_chain \in Range(cfg.allowed_target_chains)
ProperlySigned(signed) ==
    signed.signature = Sign(keypair, MessageHash(signed.message))
NonceFresh(nonce, watermark) == nonce >= MIN_NONCE /\ nonce > watermark
Unexpired(signed, now) ==
    /\ signed.timestamp <= now
    /\ now - signed.timestamp <= verifier_config.max_message_age

\* C11: verify_message returns true only for a nonce that is at least 1 and
\* strictly above the watermark found by the call; no nonce is accepted
\* twice; sign_message returns an error for a nonce at or below the
\* watermark.
C11_NonceOrdering ==
    /\ (lastOp.op = "verify_message" /\ IsTrue(lastOp.result)) =>
          NonceFresh(lastOp.input.message.nonce, lastOp.before)
    /\ \A i, j \in DOMAIN accepted : i # j => accepted[i] # accepted[j]
    /\ (lastOp.op = "sign_message" /\ lastOp.input.nonce <= lastOp.before) =>
          lastOp.result.tag = "Err"

\* Nonces 1 and 2 were accepted in that order, and a properly signed,
\* unexpired message with nonce 1 presented afterwards is refused.
C11_Witness ==
    /\ accepted = <<1, 2>>
    /\ lastOp.op = "verify_message"
    /\ lastOp.input.message.nonce = 1
    /\ ProperlySigned(lastOp.input)
    /\ Unexpired(lastOp.input, lastOp.now)
    /\ ChainsAllowedBy(verifier_config, lastOp.input.message)
    /\ lastOp.result.tag = "Err"
    /\ lastOp.result.val = ERR_NONCE

\* C12: a message returned by sign_message and verified by the very next
\* call, before it can expire, verifies true and leaves the watermark equal
\* to its nonce.
C12_RoundTrip ==
    (/\ lastOp.op = "verify_message"
     /\ lastOp.roundtrip
     /\ Unexpired(lastOp.input, lastOp.now)) =>
        /\ IsTrue(lastOp.result)
        /\ last_processed_nonce = lastOp.input.message.nonce

C12_Witness ==
    /\ lastOp.op = "verify_message"
    /\ lastOp.roundtrip
    /\ lastOp.now = lastOp.input.timestamp
    /\ lastOp.before = 1
    /\ IsTrue(lastOp.result)
    /\ last_processed_nonce = 2

\* C13: the watermark changes only in a verify_message call that returns
\* true (alone or as an element of verify_messages), which sets it to that
\* message's nonce; every other call and every other result leaves it
\* unchanged, and it never decreases.
C13_WatermarkFrame ==
    [][/\ last_processed_nonce' # last_processed_nonce =>
            /\ last_processed_nonce' > last_processed_nonce
            /\ \/ /\ lastOp'.op = "verify_message"
                  /\ IsTrue(lastOp'.result)
                  /\ last_processed_nonce' = lastOp'.input.message.nonce
               \/ /\ lastOp'.op = "verify_messages"
                  /\ \E i \in DOMAIN lastOp'.result.val :
                        /\ IsTrue(lastOp'.result.val[i])
                        /\ last_processed_nonce' = lastOp'.input[i].message.nonce
                        /\ \A j \in DOMAIN lastOp'.result.val :
                              j > i => ~IsTrue(lastOp'.result.val[j])
       /\ (lastOp'.op = "verify_message" /\ IsTrue(lastOp'.result)) =>
            last_processed_nonce' = lastOp'.input.message.nonce
      ]_vars

\* After an accepted nonce, a verification that returned false left the
\* watermark where it was.
C13_Witness ==
    /\ lastOp.op = "verify_message"
    /\ IsFalse(lastOp.result)
    /\ lastOp.before > 0
    /\ last_processed_nonce = lastOp.before
    /\ NonceFresh(lastOp.input.message.nonce, lastOp.before)

\* C14: a properly signed message with allowed chains and a fresh nonce
\* verifies false when its age exceeds max_message_age and true when its
\* age is below max_message_age.
C14_ExpiryBoundary ==
    (/\ lastOp.op = "verify_message"
     /\ lastOp.input.timestamp <= lastOp.now
     /\ ProperlySigned(lastOp.input)
     /\ ChainsAllowedBy(verifier_config, lastOp.input.message)
     /\ NonceFresh(lastOp.input.message.nonce, lastOp.before)) =>
        /\ OpAge > verifier_config.max_message_age => IsFalse(lastOp.result)
        /\ OpAge < verifier_config.max_message_age => IsTrue(lastOp.result)

\* A properly signed, fresh message aged max_message_age + 1 verified false.
C14_Witness ==
    /\ lastOp.op = "verify_message"
    /\ verifier_config.max_message_age = MAX_MESSAGE_AGE
    /\ OpAge = MAX_MESSAGE_AGE + 1
    /\ ProperlySigned(lastOp.input)
    /\ ChainsAllowedBy(verifier_config, lastOp.input.message)
    /\ NonceFresh(lastOp.input.message.nonce, lastOp.before)
    /\ IsFalse(lastOp.result)

\* C15: an unexpired message with allowed chains and a fresh nonce whose
\* signature was made over other content or by another keypair verifies
\* false, with no error and no panic, and the watermark stays.
C15_TamperDetection ==
    (/\ lastOp.op = "verify_message"
     /\ Unexpired(lastOp.input, lastOp.now)
     /\ ChainsAllowedBy(verifier_config, lastOp.input.message)
     /\ NonceFresh(lastOp.input.message.nonce, lastOp.before)
     /\ lastOp.input.signature.wellformed
     /\ ~ProperlySigned(lastOp.input)) =>
        /\ IsFalse(lastOp.result)
        /\ last_processed_nonce = lastOp.before

\* The payload was changed after the verifier's own key signed the message.
C15_Witness ==
    /\ lastOp.op = "verify_message"
    /\ Unexpired(lastOp.input, lastOp.now)
    /\ ChainsAllowedBy(verifier_config, lastOp.input.message)
    /\ NonceFresh(lastOp.input.message.nonce, lastOp.before)
    /\ lastOp.input.signature =
          Sign(keypair, MessageHash(BeforeTamper(lastOp.input.message)))
    /\ IsFalse(lastOp.result)
    /\ last_processed_nonce = lastOp.before

\* C16: for a timestamp later than the clock reading, verify_message does
\* not panic, does not return true and does not advance the watermark.
C16_FutureTimestamp ==
    (lastOp.op = "verify_message" /\ lastOp.input.timestamp > lastOp.now) =>
        /\ lastOp.result.tag # "panic"
        /\ ~IsTrue(lastOp.result)
        /\ last_processed_nonce = lastOp.before

\* The watermark seen by element i of the last verify_messages call: the
\* nonce of the nearest earlier element that verified true, else the
\* watermark the call found.
WatermarkBefore(i) ==
    LET trues == {j \in 1..(i - 1) :
                     j \in DOMAIN lastOp.result.val /\ IsTrue(lastOp.result.val[j])}
    IN IF trues = {}
       THEN lastOp.before
       ELSE lastOp.input[CHOOSE j \in trues : \A k \in trues : k <= j].message.nonce

SameResult(a, b) == a.tag = b.tag /\ a.val = b.val

SingleVerify(i) ==
    VerifierVerifyMessage(overflow_checks, keypair, verifier_config,
                          WatermarkBefore(i), lastOp.input[i], lastOp.nows[i]).result

\* C17: sign_messages and verify_messages return, in order, one result per
\* input, the i-th being what the singular call gives on the i-th input at
\* the time that element is reached (for verification, from the watermark
\* left by the earlier elements): a signed element carries its own message,
\* the verifier's signature over it and the time of its own signing, and
\* sign_messages leaves the watermark alone; a failing or false element
\* neither stops the later ones nor undoes the earlier advances; a batch
\* signed for nonces 1..n and then verified in the same order, each element
\* before it can expire, verifies all true.
C17_BatchForms ==
    /\ lastOp.op = "sign_messages" =>
          /\ Len(lastOp.result.val) = Len(lastOp.input)
          /\ Len(lastOp.nows) = Len(lastOp.input)
          /\ last_processed_nonce = lastOp.before
          /\ \A i \in DOMAIN lastOp.input :
                LET r == lastOp.result.val[i]
                    refused == \/ ~ChainsAllowedBy(verifier_config, lastOp.input[i])
                               \/ ~NonceFresh(lastOp.input[i].nonce, lastOp.before)
                IN /\ SameResult(r, SignMessage(keypair, verifier_config, lastOp.before,
                                                lastOp.input[i], lastOp.nows[i]))
                   /\ (r.tag = "Err") <=> refused
                   /\ r.tag = "Ok" =>
                         /\ r.val.message = lastOp.input[i]
                         /\ ProperlySigned(r.val)
                         /\ r.val.timestamp = lastOp.nows[i]
    /\ lastOp.op = "verify_messages" =>
          /\ \A i \in DOMAIN lastOp.result.val :
                SameResult(lastOp.result.val[i], SingleVerify(i))
          /\ lastOp.result.tag = "Ok" =>
                /\ Len(lastOp.result.val) = Len(lastOp.input)
                /\ last_processed_nonce = WatermarkBefore(Len(lastOp.input) + 1)
          /\ lastOp.result.tag = "panic" =>
                /\ Len(lastOp.result.val) < Len(lastOp.input)
                /\ SingleVerify(Len(lastOp.result.val) + 1).tag = "panic"
          /\ (\A i \in DOMAIN lastOp.input :
                 /\ i \in DOMAIN lastOp.nows
                 /\ ProperlySigned(lastOp.input[i])
                 /\ Unexpired(lastOp.input[i], lastOp.nows[i])
                 /\ ChainsAllowedBy(verifier_config, lastOp.input[i].message)
                 /\ lastOp.input[i].message.nonce = lastOp.before + i) =>
                /\ lastOp.result.tag = "Ok"
                /\ \A i \in DOMAIN lastOp.input : IsTrue(lastOp.result.val[i])
          /\ (/\ lastOp.roundtrip
              /\ \A i \in DOMAIN lastOp.input :
                    /\ i \in DOMAIN lastOp.nows
                    /\ Unexpired(lastOp.input[i], lastOp.nows[i])
                    /\ lastOp.input[i].message.nonce = lastOp.before + i) =>
                /\ \A i \in DOMAIN lastOp.input : IsTrue(lastOp.result.val[i])
                /\ last_processed_nonce = lastOp.before + Len(lastOp.input)

\* C17 witness: sign_messages signed nonces 1 and 2 while the second changed
\* between the two elements, and the batch it returned was verified by the
\* next call: the first element had expired and verified false, the second
\* verified true and advanced the watermark.
C17_Witness ==
    /\ lastOp.op = "verify_messages"
    /\ lastOp.roundtrip
    /\ lastOp.result.tag = "Ok"
    /\ Len(lastOp.input) = 2
    /\ lastOp.input[1].timestamp < lastOp.input[2].timestamp
    /\ IsFalse(lastOp.result.val[1])
    /\ IsTrue(lastOp.result.val[2])
    /\ last_processed_nonce = lastOp.input[2].message.nonce

\* C18: sign_message, and verify_message on an unexpired message, return an
\* error and leave the watermark when the source chain is not in
\* allowed_source_chains or the target chain is not in
\* allowed_target_chains; allowed chains never draw a chain error.
C18_AllowLists ==
    /\ (/\ lastOp.op = "sign_message"
        /\ ~ChainsAllowedBy(verifier_config, lastOp.input)) =>
          lastOp.result.tag = "Err"
    /\ (/\ lastOp.op = "verify_message"
        /\ Unexpired(lastOp.input, lastOp.now)
        /\ ~ChainsAllowedBy(verifier_config, lastOp.input.message)) =>
          /\ lastOp.result.tag = "Err"
          /\ last_processed_nonce = lastOp.before
    /\ (/\ lastOp.op = "sign_message"
        /\ ChainsAllowedBy(verifier_config, lastOp.input)) =>
          ~(lastOp.result.tag = "Err" /\ lastOp.result.val \in {ERR_SOURCE, ERR_TARGET})
    /\ (/\ lastOp.op = "verify_message"
        /\ ChainsAllowedBy(verifier_config, lastOp.input.message)) =>
          ~(lastOp.result.tag = "Err" /\ lastOp.result.val \in {ERR_SOURCE, ERR_TARGET})

\* A properly signed, unexpired, fresh message from a chain outside the
\* allowed sources was refused with the source-chain error.
C18_Witness ==
    /\ lastOp.op = "verify_message"
    /\ Unexpired(lastOp.input, lastOp.now)
    /\ ProperlySigned(lastOp.input)
    /\ NonceFresh(lastOp.input.message.nonce, lastOp.before)
    /\ lastOp.input.message.source_chain \notin Range(verifier_config.allowed_source_chains)
    /\ lastOp.result.tag = "Err"
    /\ lastOp.result.val = ERR_SOURCE
    /\ last_processed_nonce = lastOp.before

(***************************************************************************)
(* Config::load properties (ConfigSpec).                                   *)
(***************************************************************************)
Loaded == pc = "load_ret"
Accepted == Loaded /\ outcome = "ok"
IsHexString(s) == Len(s) % 2 = 0 /\ Range(s) \subseteq HexChars

\* C19: validation returns an error exactly when a chain's adapter_type is
\* neither "sui" nor "rooch", an asset's native_chain or one of its mapping
\* keys is not a configured chain id, a validator's public_key is not
\* hex-encoded or one of its chains is not configured, poll_interval is 0
\* or max_retries is 0.
C19_ConfigValidation ==
    Loaded =>
        (outcome # "ok" <=>
            \/ \E c \in Range(config.chains) : c.adapter_type \notin {"sui", "rooch"}
            \/ \E a \in Range(config.assets) : a.native_chain \notin ChainIds(config)
            \/ \E a \in Range(config.assets) :
                  \E k \in DOMAIN a.mappings : k \notin ChainIds(config)
            \/ \E v \in Range(config.validators) : ~IsHexString(v.public_key)
            \/ \E v \in Range(config.validators) :
                  \E c \in Range(v.chains) : c \notin ChainIds(config)
            \/ config.relayer.poll_interval = 0
            \/ config.relayer.max_retries = 0)

\* A configuration whose only fault is max_retries = 0 was rejected.
C19_Witness ==
    /\ Loaded
    /\ outcome = ERR_MAX_RETRIES_ZERO
    /\ config.relayer.poll_interval > 0
    /\ config.chains # <<>>
    /\ config.assets # <<>>
    /\ config.validators # <<>>

\* C20: an accepted configuration has pairwise distinct chain ids.
C20_UniqueChainIds ==
    Accepted =>
        \A i, j \in DOMAIN config.chains :
            i # j => config.chains[i].id # config.chains[j].id

(***************************************************************************)
(* Start-up, adapter calls and process_message                             *)
(***************************************************************************)
\* Everything but the record of the last lookup.
allButLookup == <<adapterVars, pmVars, lock, authVars, constVars, processed, pc, pos,
                  queue, clock, relayVars, histVars, cycleLog>>

\* C21: get_chain_config returns the (first) chain record with the given id
\* when one is configured and nothing when none is, and the call changes no
\* state.
C21_GetChainConfig ==
    /\ [](lookup.done =>
            IF lookup.chain_id \in ChainIds(config)
            THEN /\ lookup.result \in Range(config.chains)
                 /\ lookup.result.id = lookup.chain_id
                 /\ \A i \in 1..Len(config.chains) :
                        (/\ config.chains[i].id = lookup.chain_id
                         /\ \A j \in 1..(i - 1) : config.chains[j].id # lookup.chain_id)
                        => lookup.result = config.chains[i]
            ELSE lookup.result = None)
    /\ [][lookup' # lookup => UNCHANGED allButLookup]_vars

\* C21 witness: an id configured by two different records was looked up and
\* the first record was returned.
C21_Witness ==
    /\ lookup.done
    /\ Len(config.chains) = 2
    /\ config.chains[1].id = lookup.chain_id
    /\ config.chains[2].id = lookup.chain_id
    /\ config.chains[1] # config.chains[2]
    /\ lookup.result = config.chains[1]

FirstUnsupported(chains) ==
    \E i \in 1..Len(chains) :
        /\ chains[i].adapter_type \notin {"sui", "rooch"}
        /\ \A j \in 1..(i - 1) : chains[j].adapter_type = "rooch"

\* C22: no partial start.  A chain whose adapter_type is neither "sui" nor
\* "rooch" makes Relayer::new fail (with the unsupported-adapter error when
\* nothing before it could fail); a failed construction leaves no Relayer;
\* on success every configured chain id has an adapter of its own family.
C22_NoPartialStart ==
    pc = "new_ret" =>
        /\ (\E i \in 1..Len(config.chains) :
                config.chains[i].adapter_type \notin {"sui", "rooch"})
           => outcome # "ok"
        /\ FirstUnsupported(config.chains) => outcome = ERR_UNSUPPORTED
        /\ outcome # "ok" => DOMAIN adapters = {}
        /\ outcome = "ok" =>
            /\ DOMAIN adapters = ChainIds(config)
            /\ \A id \in DOMAIN adapters :
                \E i \in 1..Len(config.chains) :
                    /\ config.chains[i].id = id
                    /\ config.chains[i].adapter_type = adapters[id]

\* C22 witness: the second chain has an unsupported type, after a first
\* chain whose adapter was built; no Relayer is returned.
C22_Witness ==
    /\ pc = "new_ret"
    /\ Len(config.chains) = 2
    /\ config.chains[1].adapter_type = "rooch"
    /\ config.chains[2].adapter_type = "evm"
    /\ outcome = ERR_UNSUPPORTED
    /\ DOMAIN adapters = {}

\* C23: retry_with_backoff invokes the wrapped operation at most 3 times,
\* returns the first success at once, waits 2^k seconds after the k-th
\* failure (k = 1, 2) and returns the third failure without waiting.
C23_RetryWithBackoff ==
    callee = "rooch" =>
        /\ inner_calls <= 3
        /\ Len(backoffs) <= 2
        /\ \A k \in 1..Len(backoffs) : backoffs[k] = 2 ^ k
        /\ pc = "body" => Len(backoffs) = inner_calls
        /\ (pc = "op_ret" /\ last_err = "none") => Len(backoffs) = inner_calls - 1
        /\ (pc = "op_ret" /\ last_err # "none") =>
                /\ inner_calls = 3
                /\ backoffs = <<2, 4>>

\* C23 witness: three invocations failed; the waits were 2 s and 4 s and the
\* last error is returned.
C23_Witness ==
    /\ callee = "rooch"
    /\ pc = "op_ret"
    /\ last_err = "chain"
    /\ inner_calls = 3
    /\ backoffs = <<2, 4>>

\* C24: the adapters of both chain families retry a failing remote call up
\* to 3 attempts: an operation returns a chain error only after the third
\* failed attempt.
C24_UniformRetry ==
    (pc = "op_ret" /\ last_err = "chain") => inner_calls = 3

\* C25: after a serialization error the operation is not invoked again for
\* that message, neither by the adapter nor by relay_message.
C25_SerializationPermanent ==
    last_err = "serialization" => (inner_calls <= 1 /\ attempts <= 1)

\* C30: with a Rooch target one relay_message makes at most 3 * max_retries
\* remote submissions, exactly that many when every one of them fails, and a
\* remote success ends both loops with no further submission.
C30_NestedBudgets ==
    /\ []((callee = "rooch" /\ adapter_op = "submit_message") =>
            /\ remote_calls <= 3 * config.relayer.max_retries
            /\ (pc = "done" /\ outcome = ERR_MAX_RETRIES /\ encodes) =>
                    remote_calls = 3 * config.relayer.max_retries
            /\ (pc = "done" /\ outcome = "ok") => last_err = "none")
    /\ [][(callee = "rooch" /\ adapter_op = "submit_message"
            /\ pc = "op_ret" /\ last_err = "none") =>
            /\ pc' = "done"
            /\ outcome' = "ok"
            /\ remote_calls' = remote_calls]_vars
    /\ [][pc = "done" => remote_calls' = remote_calls]_vars

\* C30 witness: three relay attempts of three remote submissions each, all
\* failed.
C30_Witness ==
    /\ callee = "rooch"
    /\ adapter_op = "submit_message"
    /\ config.relayer.max_retries = 3
    /\ pc = "done"
    /\ outcome = ERR_MAX_RETRIES
    /\ attempts = 3
    /\ remote_calls = 9

\* C27: the dedup set only grows; it holds an id only if a submit_message
\* call for a message with that signature returned Ok earlier in the run;
\* a relay that failed (verification, missing target, retries exhausted)
\* returns with its id outside the set and adds nothing to it.
C27_DedupSet ==
    /\ [][processed \subseteq processed']_vars
    /\ [](processed \subseteq submittedOk)
    /\ []((pc = "relay_ret" /\ outcome # "ok") => CurId \notin processed)
    /\ [][(pc = "relay_ret" /\ outcome # "ok") => processed' = processed]_vars
    /\ [][(pc = "relay_ret" /\ outcome = "ok") =>
            (CurId \in submittedOk /\ processed' = processed \cup {CurId})]_vars

\* C27 witness: with one id already in the set, a relay of another message
\* has exhausted its retries and returns.
C27_Witness ==
    /\ pc = "relay_ret"
    /\ outcome = ERR_MAX_RETRIES
    /\ processed # {}
    /\ CurId \notin processed

\* C29: what relay_message does with a message is determined by the
\* message, the config, the clock reading and the answers of the target
\* adapter, whichever chain's listen returned it: it submits exactly when
\* the target chain has an adapter and the message passes the business
\* rules, it retries and sleeps by the config alone, and it succeeds exactly
\* when a submit succeeded.  In particular a message polled from a chain
\* other than the configured chain it names as source is submitted.
C29_SourceIndependence ==
    LET m == cur.message
        polled == iterOrder[pos]
        routed == m.target_chain \in DOMAIN adapters
        fresh == cur.timestamp <= clock /\ clock - cur.timestamp <= 3600
        known == m.source_chain \in ChainIds(config) /\ m.target_chain \in ChainIds(config)
        mapped == m.message_type = "transfer" =>
                     \E a \in Range(config.assets) :
                         /\ a.native_chain = m.source_chain
                         /\ m.target_chain \in DOMAIN a.mappings
        passes == routed /\ fresh /\ known /\ mapped
    IN /\ pc = "submit" => passes /\ lock.readers = 2
       /\ pc \in {"relay_ret", "msgs"} =>
             /\ (attempts >= 1) <=> passes
             /\ (outcome = "ok") <=> (passes /\ m \in delivered)
             /\ (passes /\ outcome # "ok") =>
                   /\ outcome = ERR_MAX_RETRIES
                   /\ attempts = config.relayer.max_retries
             /\ attempts <= config.relayer.max_retries
             /\ sleeps = [k \in 1..(attempts - 1) |-> config.relayer.retry_delay * k]
             /\ (polled # m.source_chain /\ passes) => attempts >= 1
       /\ pc = "msgs" =>
             /\ processed = (IF passes /\ m \in delivered THEN {CurId} ELSE {})
             /\ lock.readers = 1

\* C29 witness: chain A returned a message that names the other configured
\* chain B as its source; relay_message submitted it, slept after a failed
\* submit, submitted it again with success and returned Ok to start().
C29_Witness ==
    /\ pc = "msgs"
    /\ cur.message.source_chain \in DOMAIN adapters
    /\ iterOrder[pos] # cur.message.source_chain
    /\ outcome = "ok"
    /\ attempts = 2
    /\ Len(sleeps) = 1
    /\ CurId \in processed

\* C26: process_message submits to the adapter of a configured chain exactly
\* once and returns the adapter's result, without business-rule
\* verification, relay-level retry or any use of the dedup set; for a chain
\* without config or adapter it returns an error and submits nothing.
C26_DirectInjection ==
    /\ [](pm_submits <= 1)
    /\ [](pm_pc = "done" =>
            IF pm_chain \in ChainIds(config) /\ pm_chain \in DOMAIN adapters
            THEN pm_submits = 1 /\ pm_result \in {"ok", "chain"}
            ELSE pm_submits = 0 /\ pm_result \in {ERR_NO_CONFIG, ERR_PM_NO_ADAPTER})
    /\ [](pm_pc \in {"idle", "read", "submit"} => pm_submits = 0)
    /\ [][pmVars' # pmVars =>
            UNCHANGED <<processed, retry_count, sleeps, attempts, calls, verifyFailed,
                        outcome, queue, cur, pc>>]_vars
    /\ [][pm_pc = "submit" /\ pm_pc' # "submit" =>
            (pm_pc' = "done" /\ pm_submits' = 1 /\ pm_result' \in {"ok", "chain"})]_vars

\* C26 witness: an injected message (all of them fail the business rules)
\* was submitted once with success, while the signature of one of them is
\* in the dedup set.
C26_Witness ==
    /\ pm_pc = "done"
    /\ pm_submits = 1
    /\ pm_result = "ok"
    /\ HexEncode(<<205>>) \in processed
    /\ \A m \in PmMessages : VerifyMessage(config, m, clock) # "ok"

\* C28: the adapter map is never write-locked, no read acquisition blocks:
\* relay_message always gets its guard under the guard start() holds, and a
\* process_message call that runs beside the loop always reaches its
\* submit_message call.
C28_ReadersNeverBlock ==
    /\ [](~lock.writer /\ lock.readers >= 1)
    /\ (pc = "relay") ~> (pc \in {"submit", "relay_ret"})
    /\ (pm_pc = "read") ~> (pm_pc = "submit")

\* C28 witness: three read guards are held at once: start(), relay_message
\* and process_message, the latter at its submit_message call.
C28_Witness ==
    /\ pm_pc = "submit"
    /\ pc = "submit"
    /\ lock.readers = 3

====
